---- MODULE Spec2Model ----
(***************************************************************************)
(* The WebAssembly function-body validator of WAVM (Lib/IR/Validate.cpp):  *)
(* FunctionValidationContext driven through IR::CodeValidationStream.      *)
(* A behaviour is one validation stream: it is constructed for one         *)
(* function of a fixed module, receives operator calls one at a time and   *)
(* is closed with finish().  A ValidationException thrown by an operator   *)
(* call leaves the stream object alive with whatever the call had already  *)
(* changed.  Under Spec the exception propagates out of the caller's pass  *)
(* over the body, which ends there; under SpecCatch the caller catches it  *)
(* and goes on using the stream.                                           *)
(* The module-level validators of the same file (validateTypes,            *)
(* validateImports, validateExports, validateInitializer and the validate  *)
(* overloads for size constraints, table types and memory types) are       *)
(* applied to a module in a module pass: under SpecModule a behaviour is a *)
(* series of validator calls on one module, under SpecFeatures it is       *)
(* either that or a validation stream on a module with some feature flags  *)
(* disabled.                                                               *)
(***************************************************************************)
EXTENDS Integers, Sequences, FiniteSets, TLC

\* ------------------------------------------------------------------ bounds
\* Number of operator calls made on one stream.
MaxOps == 4
\* Operand-stack heights explored.
MaxStack == 3
\* Control-stack depths explored.
MaxControl == 3
\* Bits of the U64 values of size constraints.
WordBits == 2
\* Imported globals of a module.
MaxGlobals == 2
\* Exports of a module.
MaxExports == 2
\* Function types of a module's type section in the module pass.
MaxTypes == 2

\* ------------------------------------------------------------- value types
ValueTypes ==
    {"none", "any", "i32", "i64", "f32", "f64", "v128", "anyref", "funcref", "nullref"}

\* IR::isSubtype (WAVM/IR/Types.h).  none is the bottom type that
\* peekAndValidateOperand yields below the floor of an unreachable frame
\* ("a bottom type that is a subtype of all other types"); any is the top type
\* that drop and the untyped select expect.
isSubtype(subtype, supertype) ==
    \/ subtype = supertype
    \/ subtype = "none"
    \/ supertype = "any"
    \/ supertype = "anyref" /\ subtype \in {"funcref", "nullref"}
    \/ supertype = "funcref" /\ subtype = "nullref"

\* IR::isNumericType (WAVM/IR/Types.h).
isNumericType(type) == type \in {"i32", "i64", "f32", "f64", "v128"}

FunctionType(params, results) == [params |-> params, results |-> results]

\* ------------------------------------------------------------- the module
\* module.types: the function types the function and the blocks index.
types ==
    << FunctionType(<<>>, <<>>),
       FunctionType(<<"i32">>, <<"i32">>),
       FunctionType(<<"i64">>, <<>>),
       FunctionType(<<>>, <<"i32", "i64">>) >>

\* module.exceptionTypes: the parameter tuple of each exception type.
exceptionTypes == << <<"i32">> >>

\* module.functions.defs: the type index (1-based here) of each function the
\* module defines; a stream validates one of them.
functionDefs == << [type |-> 1], [type |-> 2], [type |-> 4] >>

\* functionDef.nonParameterLocalTypes.
nonParameterLocalTypes == << "i64" >>

\* functionDef.branchTables: the target depths of each br_table.
branchTables == << <<>>, <<0, 1>> >>

\* module.featureSpec with the proposed extensions the operators fed need.
EnabledFeatures ==
    [mvp |-> TRUE, simd |-> FALSE, referenceTypes |-> TRUE,
     multipleResultsAndBlockParams |-> TRUE, exceptionHandling |-> TRUE,
     importExportMutableGlobals |-> TRUE, atomics |-> TRUE, sharedTables |-> TRUE]

\* ------------------------------------------------------------------ state
VARIABLES
    featureSpec,    \* module.featureSpec
    functionType,   \* FunctionValidationContext::functionType
    locals,         \* FunctionValidationContext::locals
    controlStack,   \* FunctionValidationContext::controlStack
    stack,          \* FunctionValidationContext::stack
    lastOp,         \* name of the operator called last ("" before the first)
    lastError,      \* message of the exception the last call threw ("" if none)
    failed,         \* some operator call on this stream has thrown
    callerCatches,  \* the caller catches ValidationException and goes on
    outcome,        \* "none" until finish(), then "accepted" or "rejected"
    numOps,         \* operator calls made
    numOpens,       \* block, loop, if and try calls made
    numEnds,        \* end calls made
    pass,           \* "code": a validation stream; "module": module-level calls
    module,         \* the sections of the module being validated
    args            \* the arguments of the module-level validator called last

vars ==
    << featureSpec, functionType, locals, controlStack, stack, lastOp, lastError,
       failed, callerCatches, outcome, numOps, numOpens, numEnds, pass, module, args >>

\* ---------------------------------------------------------------- errors
ErrEmptyControlStack == "Expected non-empty control stack"
ErrEndOfCode == "end of code reached before end of function"
ErrStackEmpty == "type mismatch: expected T but stack was empty"
ErrTypeMismatch == "type mismatch: expected T but got U"
ErrInvalidIndex == "invalid index"
ErrInvalidValueType == "invalid value type"
ErrBlockParams == "block has params, but multivalue extension is disabled"
ErrBlockResults == "block has multiple results, but multivalue extension is disabled"
ErrElse == "else only allowed in if context"
ErrEndInTry == "end may not occur in try context"
ErrElseLessIf == "else-less if must have identity signature"
ErrCatch == "catch only allowed in try/catch context"
ErrStackNotEmpty == "stack was not empty at end of control structure"
ErrBrTableArity == "br_table targets must all take the same number of parameters"
ErrFeature == "requires feature"
ErrSelectNumeric == "non-typed select operands must be numeric types"
ErrSelectSame == "non-typed select operands must have the same numeric type"
ErrRethrow == "rethrow must target a catch"

\* The state a call leaves behind: it returned (ok) or threw err.
Return(st, cs) == [ok |-> TRUE, err |-> "", stack |-> st, controlStack |-> cs]
Throw(err, st, cs) == [ok |-> FALSE, err |-> err, stack |-> st, controlStack |-> cs]


\* ------------------------------------------------- type-term validators
\* validate(featureSpec, valueType): TRUE when the value type is valid.
validateValueType(valueType) ==
    CASE valueType \in {"i32", "i64", "f32", "f64"} -> featureSpec.mvp
      [] valueType = "v128" -> featureSpec.simd
      [] valueType \in {"anyref", "funcref"} -> featureSpec.referenceTypes
      [] OTHER -> FALSE

\* The block-type immediates fed: IndexedBlockType's three formats, the
\* functionType format with every type that has parameters or results and
\* with one index that is out of range.
BlockTypeImms ==
    { [format |-> "noParametersOrResult", resultType |-> "none", index |-> 0],
      [format |-> "oneResult", resultType |-> "i32", index |-> 0] }
    \cup { [format |-> "functionType", resultType |-> "none", index |-> i] :
             i \in 2..(Len(types) + 1) }

\* validateBlockType without the checks of the multivalue extension.
validateBlockType_noMultivalueCheck(imm) ==
    CASE imm.format = "noParametersOrResult" ->
           [ok |-> TRUE, err |-> "", type |-> FunctionType(<<>>, <<>>)]
      [] imm.format = "oneResult" ->
           IF validateValueType(imm.resultType)
           THEN [ok |-> TRUE, err |-> "", type |-> FunctionType(<<>>, <<imm.resultType>>)]
           ELSE [ok |-> FALSE, err |-> ErrInvalidValueType, type |-> FunctionType(<<>>, <<>>)]
      [] OTHER ->
           IF imm.index > Len(types)
           THEN [ok |-> FALSE, err |-> ErrInvalidIndex, type |-> FunctionType(<<>>, <<>>)]
           ELSE [ok |-> TRUE, err |-> "", type |-> types[imm.index]]

\* validateBlockType: the function type of a block, or the exception.  The
\* immediate's index is 0-based in the code and 1-based here.
validateBlockType(imm) ==
    CASE imm.format = "noParametersOrResult" ->
           [ok |-> TRUE, err |-> "", type |-> FunctionType(<<>>, <<>>)]
      [] imm.format = "oneResult" ->
           IF validateValueType(imm.resultType)
           THEN [ok |-> TRUE, err |-> "", type |-> FunctionType(<<>>, <<imm.resultType>>)]
           ELSE [ok |-> FALSE, err |-> ErrInvalidValueType, type |-> FunctionType(<<>>, <<>>)]
      [] OTHER ->
           IF imm.index > Len(types)
           THEN [ok |-> FALSE, err |-> ErrInvalidIndex, type |-> FunctionType(<<>>, <<>>)]
           ELSE IF Len(types[imm.index].params) > 0
                   /\ ~featureSpec.multipleResultsAndBlockParams
           THEN [ok |-> FALSE, err |-> ErrBlockParams, type |-> types[imm.index]]
           ELSE IF Len(types[imm.index].results) > 1
                   /\ ~featureSpec.multipleResultsAndBlockParams
           THEN [ok |-> FALSE, err |-> ErrBlockResults, type |-> types[imm.index]]
           ELSE [ok |-> TRUE, err |-> "", type |-> types[imm.index]]

\* ------------------------------------- FunctionValidationContext, private
\* controlStack.back()
Back(cs) == cs[Len(cs)]

\* std::vector::resize: truncates, or appends value-initialised entries.
resize(st, n) == [i \in 1..n |-> IF i <= Len(st) THEN st[i] ELSE "none"]

\* pushControlStack with the new frame inheriting the reachability of the
\* frame it is opened in.
pushControlStack_inheritReachable(st, cs, type, params, results, elseParams) ==
    Append(cs, [type |-> type, outerStackSize |-> Len(st), params |-> params,
                results |-> results,
                isReachable |-> IF cs = <<>> THEN TRUE ELSE Back(cs).isReachable,
                elseParams |-> elseParams])

\* pushControlStack giving every frame the type function.
pushControlStack_asFunction(st, cs, type, params, results, elseParams) ==
    Append(cs, [type |-> "function", outerStackSize |-> Len(st), params |-> params,
                results |-> results, isReachable |-> TRUE, elseParams |-> elseParams])

pushControlStack(st, cs, type, params, results, elseParams) ==
    Append(cs, [type |-> type, outerStackSize |-> Len(st), params |-> params,
                results |-> results, isReachable |-> TRUE, elseParams |-> elseParams])

\* validateStackEmptyAtEndOfControlStructure throwing only for a stack below
\* the frame's outerStackSize.
validateStackEmptyAtEndOfControlStructure_atLeast(st, cs) ==
    Len(st) >= Back(cs).outerStackSize

\* TRUE when the check passes, FALSE when it throws.
validateStackEmptyAtEndOfControlStructure(st, cs) ==
    Len(st) = Back(cs).outerStackSize

\* enterUnreachable truncating the stack without marking the frame unreachable.
enterUnreachable_stackOnly(st, cs) ==
    Return(resize(st, Back(cs).outerStackSize), cs)

\* enterUnreachable clearing the operand stack instead of truncating it to the
\* frame's outerStackSize.
enterUnreachable_clearStack(st, cs) ==
    Return(resize(st, 0), [cs EXCEPT ![Len(cs)].isReachable = FALSE])

\* enterUnreachable truncating the operand stack to one entry below the
\* frame's outerStackSize.
enterUnreachable_belowFloor(st, cs) ==
    Return(resize(st, IF Back(cs).outerStackSize > 0 THEN Back(cs).outerStackSize - 1 ELSE 0),
           [cs EXCEPT ![Len(cs)].isReachable = FALSE])

enterUnreachable(st, cs) ==
    Return(resize(st, Back(cs).outerStackSize),
           [cs EXCEPT ![Len(cs)].isReachable = FALSE])

\* getBranchTargetByDepth counting the depth from the function frame upwards.
getBranchTargetByDepth_fromBottom(cs, depth) ==
    IF depth >= Len(cs)
    THEN [ok |-> FALSE, err |-> ErrInvalidIndex, target |-> Back(cs)]
    ELSE [ok |-> TRUE, err |-> "", target |-> cs[depth + 1]]

\* validateBranchDepth and getBranchTargetByDepth: controlStack[size - depth - 1].
getBranchTargetByDepth(cs, depth) ==
    IF depth >= Len(cs)
    THEN [ok |-> FALSE, err |-> ErrInvalidIndex, target |-> Back(cs)]
    ELSE [ok |-> TRUE, err |-> "", target |-> cs[Len(cs) - depth]]

\* validateLocalIndex; localIndex is 0-based as in the code.
validateLocalIndex(localIndex) ==
    IF localIndex >= Len(locals)
    THEN [ok |-> FALSE, err |-> ErrInvalidIndex, type |-> "none"]
    ELSE [ok |-> TRUE, err |-> "", type |-> locals[localIndex + 1]]

\* peekAndValidateOperand without the bottom type of unreachable code: a
\* stack that is too shallow always throws.
peekAndValidateOperand_noBottom(st, cs, operandDepth, expectedType) ==
    IF Len(st) > Back(cs).outerStackSize + operandDepth
    THEN LET actualType == st[Len(st) - operandDepth] IN
         IF isSubtype(actualType, expectedType)
         THEN [ok |-> TRUE, err |-> "", type |-> actualType]
         ELSE [ok |-> FALSE, err |-> ErrTypeMismatch, type |-> actualType]
    ELSE [ok |-> FALSE, err |-> ErrStackEmpty, type |-> "none"]

peekAndValidateOperand(st, cs, operandDepth, expectedType) ==
    IF Len(st) > Back(cs).outerStackSize + operandDepth
    THEN LET actualType == st[Len(st) - operandDepth] IN
         IF isSubtype(actualType, expectedType)
         THEN [ok |-> TRUE, err |-> "", type |-> actualType]
         ELSE [ok |-> FALSE, err |-> ErrTypeMismatch, type |-> actualType]
    ELSE IF ~Back(cs).isReachable
    THEN IF isSubtype("none", expectedType)
         THEN [ok |-> TRUE, err |-> "", type |-> "none"]
         ELSE [ok |-> FALSE, err |-> ErrTypeMismatch, type |-> "none"]
    ELSE [ok |-> FALSE, err |-> ErrStackEmpty, type |-> "none"]

\* popAndValidateOperand popping whenever the stack is not empty, whatever
\* the top frame's outerStackSize.
popAndValidateOperand_noFloor(st, cs, expectedType) ==
    LET p == peekAndValidateOperand(st, cs, 0, expectedType) IN
    IF ~p.ok
    THEN [ok |-> FALSE, err |-> p.err, stack |-> st, type |-> p.type]
    ELSE [ok |-> TRUE, err |-> "",
          stack |-> IF Len(st) > 0 THEN SubSeq(st, 1, Len(st) - 1) ELSE st,
          type |-> p.type]

popAndValidateOperand(st, cs, expectedType) ==
    LET p == peekAndValidateOperand(st, cs, 0, expectedType) IN
    IF ~p.ok
    THEN [ok |-> FALSE, err |-> p.err, stack |-> st, type |-> p.type]
    ELSE [ok |-> TRUE, err |-> "",
          stack |-> IF Len(st) > Back(cs).outerStackSize
                    THEN SubSeq(st, 1, Len(st) - 1) ELSE st,
          type |-> p.type]

\* Pops expectedTypes from the last entry to the first; a failing pop throws
\* with the earlier pops already done.
RECURSIVE popAndValidateOperands(_, _, _)
popAndValidateOperands(st, cs, expectedTypes) ==
    IF expectedTypes = <<>>
    THEN [ok |-> TRUE, err |-> "", stack |-> st]
    ELSE LET p == popAndValidateOperand(st, cs, expectedTypes[Len(expectedTypes)]) IN
         IF ~p.ok
         THEN [ok |-> FALSE, err |-> p.err, stack |-> p.stack]
         ELSE popAndValidateOperands(
                  p.stack, cs, SubSeq(expectedTypes, 1, Len(expectedTypes) - 1))

popAndValidateTypeTuple(st, cs, expectedType) ==
    popAndValidateOperands(st, cs, expectedType)

\* The peek of entry operandIndex at depth operandIndex: the first entry
\* against the top of the stack.
peekTupleEntry_firstOnTop(st, cs, expectedTypes, operandIndex) ==
    peekAndValidateOperand(st, cs, operandIndex, expectedTypes[operandIndex + 1])

\* The peek of entry operandIndex (0-based) of expectedTypes.
peekTupleEntry(st, cs, expectedTypes, operandIndex) ==
    peekAndValidateOperand(
        st, cs, Len(expectedTypes) - operandIndex - 1, expectedTypes[operandIndex + 1])

\* Peeks the entries in order; the first failing peek throws.
peekAndValidateTypeTuple(st, cs, expectedTypes) ==
    LET bad == {i \in 0..(Len(expectedTypes) - 1) :
                    ~peekTupleEntry(st, cs, expectedTypes, i).ok} IN
    IF bad = {}
    THEN [ok |-> TRUE, err |-> ""]
    ELSE LET first == CHOOSE i \in bad : \A j \in bad : i <= j IN
         [ok |-> FALSE, err |-> peekTupleEntry(st, cs, expectedTypes, first).err]

pushOperand(st, type) == Append(st, type)
pushOperandTuple(st, typeTuple) == st \o typeTuple


\* ------------------------------ FunctionValidationContext, the operators
\* block pushing its frame before it validates the arguments.
block_pushFirst(st, cs, imm) ==
    LET t == validateBlockType(imm) IN
    IF ~t.ok THEN Throw(t.err, st, cs) ELSE
    LET pushed == pushControlStack(st, cs, "block", t.type.results, t.type.results, <<>>)
        p == popAndValidateTypeTuple(st, cs, t.type.params) IN
    IF ~p.ok THEN Throw(p.err, p.stack, pushed) ELSE
    Return(pushOperandTuple(p.stack, t.type.params),
           pushControlStack(p.stack, cs, "block", t.type.results, t.type.results, <<>>))

\* block pushing its frame at the stack height before the arguments are
\* popped.
block_floorAboveParams(st, cs, imm) ==
    LET t == validateBlockType(imm) IN
    IF ~t.ok THEN Throw(t.err, st, cs) ELSE
    LET p == popAndValidateTypeTuple(st, cs, t.type.params) IN
    IF ~p.ok THEN Throw(p.err, p.stack, cs) ELSE
    Return(pushOperandTuple(p.stack, t.type.params),
           pushControlStack(st, cs, "block", t.type.results, t.type.results, <<>>))

\* Each yields the state the call leaves behind and whether it threw.
block(st, cs, imm) ==
    LET t == validateBlockType(imm) IN
    IF ~t.ok THEN Throw(t.err, st, cs) ELSE
    LET p == popAndValidateTypeTuple(st, cs, t.type.params) IN
    IF ~p.ok THEN Throw(p.err, p.stack, cs) ELSE
    Return(pushOperandTuple(p.stack, t.type.params),
           pushControlStack(p.stack, cs, "block", t.type.results, t.type.results, <<>>))

\* loop recording its results as the branch parameters, as block does.
loop_branchToResults(st, cs, imm) ==
    LET t == validateBlockType(imm) IN
    IF ~t.ok THEN Throw(t.err, st, cs) ELSE
    LET p == popAndValidateTypeTuple(st, cs, t.type.params) IN
    IF ~p.ok THEN Throw(p.err, p.stack, cs) ELSE
    Return(pushOperandTuple(p.stack, t.type.params),
           pushControlStack(p.stack, cs, "loop", t.type.results, t.type.results, <<>>))

loop(st, cs, imm) ==
    LET t == validateBlockType(imm) IN
    IF ~t.ok THEN Throw(t.err, st, cs) ELSE
    LET p == popAndValidateTypeTuple(st, cs, t.type.params) IN
    IF ~p.ok THEN Throw(p.err, p.stack, cs) ELSE
    Return(pushOperandTuple(p.stack, t.type.params),
           pushControlStack(p.stack, cs, "loop", t.type.params, t.type.results, <<>>))

if_(st, cs, imm) ==
    LET t == validateBlockType(imm) IN
    IF ~t.ok THEN Throw(t.err, st, cs) ELSE
    LET c == popAndValidateOperand(st, cs, "i32") IN
    IF ~c.ok THEN Throw(c.err, c.stack, cs) ELSE
    LET p == popAndValidateTypeTuple(c.stack, cs, t.type.params) IN
    IF ~p.ok THEN Throw(p.err, p.stack, cs) ELSE
    Return(pushOperandTuple(p.stack, t.type.params),
           pushControlStack(p.stack, cs, "ifThen", t.type.results, t.type.results,
                            t.type.params))

try_(st, cs, imm) ==
    LET t == validateBlockType(imm) IN
    IF ~t.ok THEN Throw(t.err, st, cs) ELSE
    IF ~featureSpec.exceptionHandling THEN Throw(ErrFeature, st, cs) ELSE
    LET p == popAndValidateTypeTuple(st, cs, t.type.params) IN
    IF ~p.ok THEN Throw(p.err, p.stack, cs) ELSE
    Return(pushOperandTuple(p.stack, t.type.params),
           pushControlStack(p.stack, cs, "try_", t.type.results, t.type.results, <<>>))

\* else_ leaving the frame's type ifThen.
else_keepType(st, cs) ==
    IF Back(cs).type # "ifThen" THEN Throw(ErrElse, st, cs) ELSE
    LET p == popAndValidateTypeTuple(st, cs, Back(cs).results) IN
    IF ~p.ok THEN Throw(p.err, p.stack, cs) ELSE
    IF ~validateStackEmptyAtEndOfControlStructure(p.stack, cs)
    THEN Throw(ErrStackNotEmpty, p.stack, cs) ELSE
    Return(pushOperandTuple(p.stack, Back(cs).elseParams),
           [cs EXCEPT ![Len(cs)].isReachable = TRUE])

\* else_ clearing the frame's elseParams once they have been pushed.
else_clearElseParams(st, cs) ==
    IF Back(cs).type # "ifThen" THEN Throw(ErrElse, st, cs) ELSE
    LET p == popAndValidateTypeTuple(st, cs, Back(cs).results) IN
    IF ~p.ok THEN Throw(p.err, p.stack, cs) ELSE
    IF ~validateStackEmptyAtEndOfControlStructure(p.stack, cs)
    THEN Throw(ErrStackNotEmpty, p.stack, cs) ELSE
    Return(pushOperandTuple(p.stack, Back(cs).elseParams),
           [cs EXCEPT ![Len(cs)].type = "ifElse", ![Len(cs)].isReachable = TRUE,
                      ![Len(cs)].elseParams = <<>>])

else_(st, cs) ==
    IF Back(cs).type # "ifThen" THEN Throw(ErrElse, st, cs) ELSE
    LET p == popAndValidateTypeTuple(st, cs, Back(cs).results) IN
    IF ~p.ok THEN Throw(p.err, p.stack, cs) ELSE
    IF ~validateStackEmptyAtEndOfControlStructure(p.stack, cs)
    THEN Throw(ErrStackNotEmpty, p.stack, cs) ELSE
    Return(pushOperandTuple(p.stack, Back(cs).elseParams),
           [cs EXCEPT ![Len(cs)].type = "ifElse", ![Len(cs)].isReachable = TRUE])

\* end without the identity-signature check of an else-less if.
end_noIdentityCheck(st, cs) ==
    IF Back(cs).type = "try_" THEN Throw(ErrEndInTry, st, cs) ELSE
    LET results == Back(cs).results IN
    LET p == popAndValidateTypeTuple(st, cs, Back(cs).results) IN
    IF ~p.ok THEN Throw(p.err, p.stack, cs) ELSE
    IF ~validateStackEmptyAtEndOfControlStructure(p.stack, cs)
    THEN Throw(ErrStackNotEmpty, p.stack, cs) ELSE
    LET popped == SubSeq(cs, 1, Len(cs) - 1) IN
    Return(IF Len(popped) > 0 THEN pushOperandTuple(p.stack, results) ELSE p.stack,
           popped)

\* end pushing the results back even when it closed the function frame.
end_repushAlways(st, cs) ==
    IF Back(cs).type = "try_" THEN Throw(ErrEndInTry, st, cs) ELSE
    LET results == Back(cs).results IN
    IF Back(cs).type = "ifThen" /\ results # Back(cs).elseParams
    THEN Throw(ErrElseLessIf, st, cs) ELSE
    LET p == popAndValidateTypeTuple(st, cs, Back(cs).results) IN
    IF ~p.ok THEN Throw(p.err, p.stack, cs) ELSE
    IF ~validateStackEmptyAtEndOfControlStructure(p.stack, cs)
    THEN Throw(ErrStackNotEmpty, p.stack, cs) ELSE
    Return(pushOperandTuple(p.stack, results), SubSeq(cs, 1, Len(cs) - 1))

\* end marking the enclosing frame reachable again once the inner frame is
\* closed.
end_resetReachable(st, cs) ==
    IF Back(cs).type = "try_" THEN Throw(ErrEndInTry, st, cs) ELSE
    LET results == Back(cs).results IN
    IF Back(cs).type = "ifThen" /\ results # Back(cs).elseParams
    THEN Throw(ErrElseLessIf, st, cs) ELSE
    LET p == popAndValidateTypeTuple(st, cs, Back(cs).results) IN
    IF ~p.ok THEN Throw(p.err, p.stack, cs) ELSE
    IF ~validateStackEmptyAtEndOfControlStructure(p.stack, cs)
    THEN Throw(ErrStackNotEmpty, p.stack, cs) ELSE
    LET popped == SubSeq(cs, 1, Len(cs) - 1) IN
    IF Len(popped) > 0
    THEN Return(pushOperandTuple(p.stack, results),
                [popped EXCEPT ![Len(popped)].isReachable = TRUE])
    ELSE Return(p.stack, popped)

\* end without the check of the try context.
end_noTryCheck(st, cs) ==
    LET results == Back(cs).results IN
    IF Back(cs).type = "ifThen" /\ results # Back(cs).elseParams
    THEN Throw(ErrElseLessIf, st, cs) ELSE
    LET p == popAndValidateTypeTuple(st, cs, Back(cs).results) IN
    IF ~p.ok THEN Throw(p.err, p.stack, cs) ELSE
    IF ~validateStackEmptyAtEndOfControlStructure(p.stack, cs)
    THEN Throw(ErrStackNotEmpty, p.stack, cs) ELSE
    LET popped == SubSeq(cs, 1, Len(cs) - 1) IN
    Return(IF Len(popped) > 0 THEN pushOperandTuple(p.stack, results) ELSE p.stack,
           popped)

\* end checking the results and leaving the operands themselves on the stack
\* instead of popping them and pushing the declared results.
end_leaveOperands(st, cs) ==
    IF Back(cs).type = "try_" THEN Throw(ErrEndInTry, st, cs) ELSE
    LET results == Back(cs).results IN
    IF Back(cs).type = "ifThen" /\ results # Back(cs).elseParams
    THEN Throw(ErrElseLessIf, st, cs) ELSE
    LET p == popAndValidateTypeTuple(st, cs, Back(cs).results) IN
    IF ~p.ok THEN Throw(p.err, p.stack, cs) ELSE
    IF ~validateStackEmptyAtEndOfControlStructure(p.stack, cs)
    THEN Throw(ErrStackNotEmpty, p.stack, cs) ELSE
    LET popped == SubSeq(cs, 1, Len(cs) - 1) IN
    Return(IF Len(popped) > 0 THEN st ELSE p.stack, popped)

end(st, cs) ==
    IF Back(cs).type = "try_" THEN Throw(ErrEndInTry, st, cs) ELSE
    LET results == Back(cs).results IN
    IF Back(cs).type = "ifThen" /\ results # Back(cs).elseParams
    THEN Throw(ErrElseLessIf, st, cs) ELSE
    LET p == popAndValidateTypeTuple(st, cs, Back(cs).results) IN
    IF ~p.ok THEN Throw(p.err, p.stack, cs) ELSE
    IF ~validateStackEmptyAtEndOfControlStructure(p.stack, cs)
    THEN Throw(ErrStackNotEmpty, p.stack, cs) ELSE
    LET popped == SubSeq(cs, 1, Len(cs) - 1) IN
    Return(IF Len(popped) > 0 THEN pushOperandTuple(p.stack, results) ELSE p.stack,
           popped)

\* validateCatch without the check of the frame's type.
validateCatch_anyFrame(st, cs) ==
    LET p == popAndValidateTypeTuple(st, cs, Back(cs).results) IN
    IF ~p.ok THEN Throw(p.err, p.stack, cs) ELSE
    IF ~validateStackEmptyAtEndOfControlStructure(p.stack, cs)
    THEN Throw(ErrStackNotEmpty, p.stack, cs) ELSE
    Return(p.stack,
           [cs EXCEPT ![Len(cs)].type = "catch_", ![Len(cs)].isReachable = TRUE])

validateCatch(st, cs) ==
    LET p == popAndValidateTypeTuple(st, cs, Back(cs).results) IN
    IF ~p.ok THEN Throw(p.err, p.stack, cs) ELSE
    IF ~validateStackEmptyAtEndOfControlStructure(p.stack, cs)
    THEN Throw(ErrStackNotEmpty, p.stack, cs) ELSE
    IF Back(cs).type \in {"try_", "catch_"}
    THEN Return(p.stack,
                [cs EXCEPT ![Len(cs)].type = "catch_", ![Len(cs)].isReachable = TRUE])
    ELSE Throw(ErrCatch, p.stack, cs)

\* exceptionTypeIndex is 0-based as in the code.
catch_(st, cs, exceptionTypeIndex) ==
    IF ~featureSpec.exceptionHandling THEN Throw(ErrFeature, st, cs) ELSE
    IF exceptionTypeIndex >= Len(exceptionTypes) THEN Throw(ErrInvalidIndex, st, cs) ELSE
    LET c == validateCatch(st, cs) IN
    IF ~c.ok THEN c ELSE
    Return(pushOperandTuple(c.stack, exceptionTypes[exceptionTypeIndex + 1]),
           c.controlStack)

catch_all(st, cs) ==
    IF ~featureSpec.exceptionHandling THEN Throw(ErrFeature, st, cs) ELSE
    validateCatch(st, cs)

\* return_ checked against the results of the top frame.
return_frameResults(st, cs) ==
    LET p == popAndValidateTypeTuple(st, cs, Back(cs).results) IN
    IF ~p.ok THEN Throw(p.err, p.stack, cs) ELSE enterUnreachable(p.stack, cs)

return_(st, cs) ==
    LET p == popAndValidateTypeTuple(st, cs, functionType.results) IN
    IF ~p.ok THEN Throw(p.err, p.stack, cs) ELSE enterUnreachable(p.stack, cs)

br(st, cs, targetDepth) ==
    LET t == getBranchTargetByDepth(cs, targetDepth) IN
    IF ~t.ok THEN Throw(t.err, st, cs) ELSE
    LET p == popAndValidateTypeTuple(st, cs, t.target.params) IN
    IF ~p.ok THEN Throw(p.err, p.stack, cs) ELSE enterUnreachable(p.stack, cs)

\* The loop of br_table without the comparison of the targets' arities.
RECURSIVE br_table_targets_noArity(_, _, _, _, _)
br_table_targets_noArity(st, cs, targetDepths, defaultTargetParams, targetIndex) ==
    IF targetIndex > Len(targetDepths) THEN [ok |-> TRUE, err |-> ""] ELSE
    LET t == getBranchTargetByDepth(cs, targetDepths[targetIndex]) IN
    IF ~t.ok THEN [ok |-> FALSE, err |-> t.err] ELSE
    LET k == peekAndValidateTypeTuple(st, cs, t.target.params) IN
    IF ~k.ok THEN k ELSE
    br_table_targets_noArity(st, cs, targetDepths, defaultTargetParams, targetIndex + 1)

\* The loop of br_table over targetDepths from entry targetIndex (1-based) on:
\* the first target that throws decides the exception.
RECURSIVE br_table_targets(_, _, _, _, _)
br_table_targets(st, cs, targetDepths, defaultTargetParams, targetIndex) ==
    IF targetIndex > Len(targetDepths) THEN [ok |-> TRUE, err |-> ""] ELSE
    LET t == getBranchTargetByDepth(cs, targetDepths[targetIndex]) IN
    IF ~t.ok THEN [ok |-> FALSE, err |-> t.err] ELSE
    IF Len(t.target.params) # Len(defaultTargetParams)
    THEN [ok |-> FALSE, err |-> ErrBrTableArity] ELSE
    LET k == peekAndValidateTypeTuple(st, cs, t.target.params) IN
    IF ~k.ok THEN k ELSE
    br_table_targets(st, cs, targetDepths, defaultTargetParams, targetIndex + 1)

\* br_table checking the listed targets only, not the default target.
br_table_noDefaultCheck(st, cs, imm) ==
    LET i == popAndValidateOperand(st, cs, "i32") IN
    IF ~i.ok THEN Throw(i.err, i.stack, cs) ELSE
    LET d == getBranchTargetByDepth(cs, imm.defaultTargetDepth) IN
    IF ~d.ok THEN Throw(d.err, i.stack, cs) ELSE
    LET ts == br_table_targets(i.stack, cs, branchTables[imm.branchTableIndex],
                               d.target.params, 1) IN
    IF ~ts.ok THEN Throw(ts.err, i.stack, cs) ELSE enterUnreachable(i.stack, cs)

\* imm.branchTableIndex is an index into functionDef.branchTables (1-based here).
br_table(st, cs, imm) ==
    LET i == popAndValidateOperand(st, cs, "i32") IN
    IF ~i.ok THEN Throw(i.err, i.stack, cs) ELSE
    LET d == getBranchTargetByDepth(cs, imm.defaultTargetDepth) IN
    IF ~d.ok THEN Throw(d.err, i.stack, cs) ELSE
    LET ts == br_table_targets(i.stack, cs, branchTables[imm.branchTableIndex],
                               d.target.params, 1) IN
    IF ~ts.ok THEN Throw(ts.err, i.stack, cs) ELSE
    LET p == popAndValidateTypeTuple(i.stack, cs, d.target.params) IN
    IF ~p.ok THEN Throw(p.err, p.stack, cs) ELSE enterUnreachable(p.stack, cs)

\* br_if not pushing the branch parameters back for the fall-through.
br_if_noRepush(st, cs, targetDepth) ==
    LET t == getBranchTargetByDepth(cs, targetDepth) IN
    IF ~t.ok THEN Throw(t.err, st, cs) ELSE
    LET c == popAndValidateOperand(st, cs, "i32") IN
    IF ~c.ok THEN Throw(c.err, c.stack, cs) ELSE
    LET p == popAndValidateTypeTuple(c.stack, cs, t.target.params) IN
    IF ~p.ok THEN Throw(p.err, p.stack, cs) ELSE
    Return(p.stack, cs)

br_if(st, cs, targetDepth) ==
    LET t == getBranchTargetByDepth(cs, targetDepth) IN
    IF ~t.ok THEN Throw(t.err, st, cs) ELSE
    LET c == popAndValidateOperand(st, cs, "i32") IN
    IF ~c.ok THEN Throw(c.err, c.stack, cs) ELSE
    LET p == popAndValidateTypeTuple(c.stack, cs, t.target.params) IN
    IF ~p.ok THEN Throw(p.err, p.stack, cs) ELSE
    Return(pushOperandTuple(p.stack, t.target.params), cs)

unreachable(st, cs) == enterUnreachable(st, cs)

drop(st, cs) ==
    LET p == popAndValidateOperand(st, cs, "any") IN
    IF ~p.ok THEN Throw(p.err, p.stack, cs) ELSE Return(p.stack, cs)

\* select taking the unknown operand of unreachable code for a non-numeric type.
select_rejectUnknown(st, cs, type) ==
    LET c == popAndValidateOperand(st, cs, "i32") IN
    IF ~c.ok THEN Throw(c.err, c.stack, cs) ELSE
    IF type = "any"
    THEN LET f == popAndValidateOperand(c.stack, cs, "any") IN
         IF ~f.ok THEN Throw(f.err, f.stack, cs) ELSE
         LET t == popAndValidateOperand(f.stack, cs, "any") IN
         IF ~t.ok THEN Throw(t.err, t.stack, cs) ELSE
         IF ~isNumericType(f.type) \/ ~isNumericType(t.type)
         THEN Throw(ErrSelectNumeric, t.stack, cs) ELSE
         IF f.type # t.type THEN Throw(ErrSelectSame, t.stack, cs) ELSE
         Return(pushOperand(t.stack, f.type), cs)
    ELSE IF ~featureSpec.referenceTypes THEN Throw(ErrFeature, c.stack, cs) ELSE
         IF ~validateValueType(type) THEN Throw(ErrInvalidValueType, c.stack, cs) ELSE
         LET f == popAndValidateOperand(c.stack, cs, type) IN
         IF ~f.ok THEN Throw(f.err, f.stack, cs) ELSE
         LET t == popAndValidateOperand(f.stack, cs, type) IN
         IF ~t.ok THEN Throw(t.err, t.stack, cs) ELSE
         Return(pushOperand(t.stack, type), cs)

\* The untyped select always pushing the type of the true value.
select_pushTrueType(st, cs, type) ==
    LET c == popAndValidateOperand(st, cs, "i32") IN
    IF ~c.ok THEN Throw(c.err, c.stack, cs) ELSE
    IF type = "any"
    THEN LET f == popAndValidateOperand(c.stack, cs, "any") IN
         IF ~f.ok THEN Throw(f.err, f.stack, cs) ELSE
         LET t == popAndValidateOperand(f.stack, cs, "any") IN
         IF ~t.ok THEN Throw(t.err, t.stack, cs) ELSE
         IF \/ f.type # "none" /\ ~isNumericType(f.type)
            \/ t.type # "none" /\ ~isNumericType(t.type)
         THEN Throw(ErrSelectNumeric, t.stack, cs) ELSE
         IF f.type # "none" /\ t.type # "none" /\ f.type # t.type
         THEN Throw(ErrSelectSame, t.stack, cs) ELSE
         Return(pushOperand(t.stack, t.type), cs)
    ELSE IF ~featureSpec.referenceTypes THEN Throw(ErrFeature, c.stack, cs) ELSE
         IF ~validateValueType(type) THEN Throw(ErrInvalidValueType, c.stack, cs) ELSE
         LET f == popAndValidateOperand(c.stack, cs, type) IN
         IF ~f.ok THEN Throw(f.err, f.stack, cs) ELSE
         LET t == popAndValidateOperand(f.stack, cs, type) IN
         IF ~t.ok THEN Throw(t.err, t.stack, cs) ELSE
         Return(pushOperand(t.stack, type), cs)

\* imm.type is any for the untyped select.
select(st, cs, type) ==
    LET c == popAndValidateOperand(st, cs, "i32") IN
    IF ~c.ok THEN Throw(c.err, c.stack, cs) ELSE
    IF type = "any"
    THEN LET f == popAndValidateOperand(c.stack, cs, "any") IN
         IF ~f.ok THEN Throw(f.err, f.stack, cs) ELSE
         LET t == popAndValidateOperand(f.stack, cs, "any") IN
         IF ~t.ok THEN Throw(t.err, t.stack, cs) ELSE
         IF \/ f.type # "none" /\ ~isNumericType(f.type)
            \/ t.type # "none" /\ ~isNumericType(t.type)
         THEN Throw(ErrSelectNumeric, t.stack, cs) ELSE
         IF f.type = "none" THEN Return(pushOperand(t.stack, t.type), cs) ELSE
         IF t.type = "none" THEN Return(pushOperand(t.stack, f.type), cs) ELSE
         IF f.type # t.type THEN Throw(ErrSelectSame, t.stack, cs) ELSE
         Return(pushOperand(t.stack, f.type), cs)
    ELSE IF ~featureSpec.referenceTypes THEN Throw(ErrFeature, c.stack, cs) ELSE
         IF ~validateValueType(type) THEN Throw(ErrInvalidValueType, c.stack, cs) ELSE
         LET f == popAndValidateOperand(c.stack, cs, type) IN
         IF ~f.ok THEN Throw(f.err, f.stack, cs) ELSE
         LET t == popAndValidateOperand(f.stack, cs, type) IN
         IF ~t.ok THEN Throw(t.err, t.stack, cs) ELSE
         Return(pushOperand(t.stack, type), cs)

local_get(st, cs, variableIndex) ==
    LET l == validateLocalIndex(variableIndex) IN
    IF ~l.ok THEN Throw(l.err, st, cs) ELSE Return(pushOperand(st, l.type), cs)

local_set(st, cs, variableIndex) ==
    LET l == validateLocalIndex(variableIndex) IN
    IF ~l.ok THEN Throw(l.err, st, cs) ELSE
    LET p == popAndValidateOperand(st, cs, l.type) IN
    IF ~p.ok THEN Throw(p.err, p.stack, cs) ELSE Return(p.stack, cs)

\* local.tee not pushing the operand back.
local_tee_noPush(st, cs, variableIndex) ==
    LET l == validateLocalIndex(variableIndex) IN
    IF ~l.ok THEN Throw(l.err, st, cs) ELSE
    LET p == popAndValidateOperand(st, cs, l.type) IN
    IF ~p.ok THEN Throw(p.err, p.stack, cs) ELSE Return(p.stack, cs)

local_tee(st, cs, variableIndex) ==
    LET l == validateLocalIndex(variableIndex) IN
    IF ~l.ok THEN Throw(l.err, st, cs) ELSE
    LET p == popAndValidateOperand(st, cs, l.type) IN
    IF ~p.ok THEN Throw(p.err, p.stack, cs) ELSE Return(pushOperand(p.stack, p.type), cs)

\* throw_ popping the exception arguments before it checks the feature.
throw_popFirst(st, cs, exceptionTypeIndex) ==
    IF exceptionTypeIndex >= Len(exceptionTypes) THEN Throw(ErrInvalidIndex, st, cs) ELSE
    LET p == popAndValidateTypeTuple(st, cs, exceptionTypes[exceptionTypeIndex + 1]) IN
    IF ~p.ok THEN Throw(p.err, p.stack, cs) ELSE
    IF ~featureSpec.exceptionHandling THEN Throw(ErrFeature, p.stack, cs) ELSE
    enterUnreachable(p.stack, cs)

throw_(st, cs, exceptionTypeIndex) ==
    IF ~featureSpec.exceptionHandling THEN Throw(ErrFeature, st, cs) ELSE
    IF exceptionTypeIndex >= Len(exceptionTypes) THEN Throw(ErrInvalidIndex, st, cs) ELSE
    LET p == popAndValidateTypeTuple(st, cs, exceptionTypes[exceptionTypeIndex + 1]) IN
    IF ~p.ok THEN Throw(p.err, p.stack, cs) ELSE enterUnreachable(p.stack, cs)

\* rethrow accepting a frame that is still of type try as its target.
rethrow_acceptTry(st, cs, catchDepth) ==
    IF ~featureSpec.exceptionHandling THEN Throw(ErrFeature, st, cs) ELSE
    LET t == getBranchTargetByDepth(cs, catchDepth) IN
    IF ~t.ok THEN Throw(t.err, st, cs) ELSE
    IF t.target.type \notin {"try_", "catch_"} THEN Throw(ErrRethrow, st, cs) ELSE
    enterUnreachable(st, cs)

rethrow(st, cs, catchDepth) ==
    IF ~featureSpec.exceptionHandling THEN Throw(ErrFeature, st, cs) ELSE
    LET t == getBranchTargetByDepth(cs, catchDepth) IN
    IF ~t.ok THEN Throw(t.err, st, cs) ELSE
    IF t.target.type # "catch_" THEN Throw(ErrRethrow, st, cs) ELSE
    enterUnreachable(st, cs)


\* ---------------------------------- non-control, non-parametric operators
\* module.memories: the memory types (one default memory).
memories == << [isShared |-> FALSE] >>

ErrAlignment == "load or store alignment greater than natural alignment"
ErrNoMemory == "load or store in module without default memory"

\* IR::getNonParametricOpSigs and the required feature of each operator
\* (WAVM/IR/Operators.h), for the operators the model feeds.
NonParametricOpSigs ==
    [ nop       |-> [params |-> <<>>, results |-> <<>>, requiredFeature |-> "mvp"],
      i32_const |-> [params |-> <<>>, results |-> <<"i32">>, requiredFeature |-> "mvp"],
      i64_const |-> [params |-> <<>>, results |-> <<"i64">>, requiredFeature |-> "mvp"],
      i32_add   |-> [params |-> <<"i32", "i32">>, results |-> <<"i32">>,
                     requiredFeature |-> "mvp"],
      i32_load  |-> [params |-> <<"i32">>, results |-> <<"i32">>,
                     requiredFeature |-> "mvp"],
      ref_null  |-> [params |-> <<>>, results |-> <<"nullref">>,
                     requiredFeature |-> "referenceTypes"],
      v128_load |-> [params |-> <<"i32">>, results |-> <<"v128">>,
                     requiredFeature |-> "simd"] ]

\* The immediates fed with each operator: NoImm and LiteralImm carry nothing
\* that is validated; i32.load carries LoadOrStoreImm<2>, v128.load
\* LoadOrStoreImm<4>.
NoImm == [kind |-> "NoImm", alignmentLog2 |-> 0, naturalAlignmentLog2 |-> 0]
LoadOrStoreImm(alignmentLog2, naturalAlignmentLog2) ==
    [kind |-> "LoadOrStoreImm", alignmentLog2 |-> alignmentLog2,
     naturalAlignmentLog2 |-> naturalAlignmentLog2]

NonParametricCalls ==
    { [name |-> n, imm |-> NoImm] : n \in {"i32_const", "i64_const", "i32_add", "ref_null"} }
    \cup { [name |-> "i32_load", imm |-> LoadOrStoreImm(a, 2)] : a \in {2, 3} }

\* validateImm: "" when the immediate is valid, else the exception's message.
validateImm(imm) ==
    IF imm.kind = "LoadOrStoreImm"
    THEN IF imm.alignmentLog2 > imm.naturalAlignmentLog2 THEN ErrAlignment
         ELSE IF Len(memories) = 0 THEN ErrNoMemory
         ELSE ""
    ELSE ""

\* VALIDATE_OP checking the parameters without popping them.
VALIDATE_OP_peekParams(st, cs, name, imm) ==
    IF ~featureSpec[NonParametricOpSigs[name].requiredFeature]
    THEN Throw(ErrFeature, st, cs) ELSE
    IF validateImm(imm) # "" THEN Throw(validateImm(imm), st, cs) ELSE
    LET p == peekAndValidateTypeTuple(st, cs, NonParametricOpSigs[name].params) IN
    IF ~p.ok THEN Throw(p.err, st, cs) ELSE
    Return(pushOperandTuple(st, NonParametricOpSigs[name].results), cs)

VALIDATE_OP(st, cs, name, imm) ==
    IF ~featureSpec[NonParametricOpSigs[name].requiredFeature]
    THEN Throw(ErrFeature, st, cs) ELSE
    IF validateImm(imm) # "" THEN Throw(validateImm(imm), st, cs) ELSE
    LET p == popAndValidateTypeTuple(st, cs, NonParametricOpSigs[name].params) IN
    IF ~p.ok THEN Throw(p.err, p.stack, cs) ELSE
    Return(pushOperandTuple(p.stack, NonParametricOpSigs[name].results), cs)

\* ------------------------------------------------ module-level validators
\* Each validator yields "" when it returns and the exception's message when
\* it throws.
ErrDisjointSizeBounds == "disjoint size bounds"
ErrMaximumSizeExceedsLimit == "maximum size exceeds limit"
ErrInvalidReferenceType == "invalid reference type"
ErrSharedTableMax == "shared tables must have a maximum size"
ErrSharedMemoryMax == "shared memories must have a maximum size"
ErrMutateImmutable == "attempting to mutate immutable global"
ErrInitializerImport ==
    "global variable initializer expression may only access imported globals"
ErrInitializerImmutable ==
    "global variable initializer expression may only access immutable globals"
ErrInvalidInitializer == "invalid initializer expression"
ErrTooManyReturnValues == "function has more return values than WAVM can support"
ErrMultipleReturnValues ==
    "function/block has multiple return values, but multivalue extension is disabled"
ErrMutableImport == "mutable globals cannot be imported"
ErrTooManyTables == "too many tables"
ErrTooManyMemories == "too many memories"
ErrUnknownExportKind == "unknown export kind"
ErrDuplicateExport == "duplicate export"

\* The U64 values of size constraints, WordBits wide; a max of UINT64_MAX
\* stands for "unbounded".
UINT64_MAX == 2^WordBits - 1
U64 == 0..UINT64_MAX

\* IR::maxTableElems, IR::maxMemoryPages and IR::maxReturnValues (WAVM/IR/IR.h),
\* scaled to the U64 values of the model.
maxTableElems == 2
maxMemoryPages == 1
maxReturnValues == 2

\* The message of the first check that threw, "" if none did.
FirstError(errors) ==
    LET bad == {i \in 1..Len(errors) : errors[i] # ""} IN
    IF bad = {} THEN "" ELSE errors[CHOOSE i \in bad : \A j \in bad : i <= j]

\* validate(SizeConstraints, U64) comparing a max of UINT64_MAX like any other.
validateSizeConstraints_noSentinel(size, maxMax) ==
    IF size.min > size.max THEN ErrDisjointSizeBounds ELSE
    IF size.max > maxMax THEN ErrMaximumSizeExceedsLimit ELSE ""

\* validate(SizeConstraints size, U64 maxMax)
validateSizeConstraints(size, maxMax) ==
    LET max == IF size.max = UINT64_MAX THEN maxMax ELSE size.max IN
    IF size.min > max THEN ErrDisjointSizeBounds ELSE
    IF max > maxMax THEN ErrMaximumSizeExceedsLimit ELSE ""

\* validate(featureSpec, ReferenceType): TRUE when the reference type is valid.
validateReferenceType(type) ==
    CASE type = "funcref" -> featureSpec.mvp
      [] type = "anyref" -> featureSpec.referenceTypes
      [] OTHER -> FALSE

\* validate(module, TableType)
validateTableType(type) ==
    IF ~validateReferenceType(type.elementType) THEN ErrInvalidReferenceType ELSE
    IF validateSizeConstraints(type.size, maxTableElems) # ""
    THEN validateSizeConstraints(type.size, maxTableElems) ELSE
    IF type.isShared /\ ~featureSpec.sharedTables THEN ErrFeature ELSE
    IF type.isShared /\ type.size.max = UINT64_MAX THEN ErrSharedTableMax ELSE ""

\* validate(module, MemoryType) accepting a shared memory without a maximum.
validateMemoryType_sharedUnbounded(type) ==
    IF validateSizeConstraints(type.size, maxMemoryPages) # ""
    THEN validateSizeConstraints(type.size, maxMemoryPages) ELSE
    IF type.isShared /\ ~featureSpec.atomics THEN ErrFeature ELSE ""

\* validate(module, MemoryType)
validateMemoryType(type) ==
    IF validateSizeConstraints(type.size, maxMemoryPages) # ""
    THEN validateSizeConstraints(type.size, maxMemoryPages) ELSE
    IF type.isShared /\ ~featureSpec.atomics THEN ErrFeature ELSE
    IF type.isShared /\ type.size.max = UINT64_MAX THEN ErrSharedMemoryMax ELSE ""

\* validate(featureSpec, GlobalType)
validateGlobalType(type) == validateValueType(type.valueType)

\* validate(featureSpec, TypeTuple)
validateTypeTuple(typeTuple) ==
    \A i \in 1..Len(typeTuple) : validateValueType(typeTuple[i])

\* validateType: TRUE when actualType is a subtype of expectedType.
validateType(expectedType, actualType) == isSubtype(actualType, expectedType)

\* IndexSpace::size() and IndexSpace::getType(index): the imports come first.
\* Indices are 0-based as in the code.
indexSpaceSize(indexSpace) == Len(indexSpace.imports) + Len(indexSpace.defs)
getType(indexSpace, index) ==
    IF index < Len(indexSpace.imports)
    THEN indexSpace.imports[index + 1].type
    ELSE indexSpace.defs[index - Len(indexSpace.imports) + 1].type

\* validateGlobalIndex without the mustBeImmutable check.
validateGlobalIndex_noImmutableCheck(m, globalIndex, mustBeMutable, mustBeImmutable, mustBeImport) ==
    IF globalIndex >= indexSpaceSize(m.globals)
    THEN [ok |-> FALSE, err |-> ErrInvalidIndex, type |-> "none"] ELSE
    LET globalType == getType(m.globals, globalIndex) IN
    IF mustBeMutable /\ ~globalType.isMutable
    THEN [ok |-> FALSE, err |-> ErrMutateImmutable, type |-> globalType.valueType] ELSE
    IF mustBeImport /\ globalIndex >= Len(m.globals.imports)
    THEN [ok |-> FALSE, err |-> ErrInitializerImport, type |-> globalType.valueType]
    ELSE [ok |-> TRUE, err |-> "", type |-> globalType.valueType]

\* validateGlobalIndex: the global's value type, or the exception.
validateGlobalIndex(m, globalIndex, mustBeMutable, mustBeImmutable, mustBeImport) ==
    IF globalIndex >= indexSpaceSize(m.globals)
    THEN [ok |-> FALSE, err |-> ErrInvalidIndex, type |-> "none"] ELSE
    LET globalType == getType(m.globals, globalIndex) IN
    IF mustBeMutable /\ ~globalType.isMutable
    THEN [ok |-> FALSE, err |-> ErrMutateImmutable, type |-> globalType.valueType] ELSE
    IF mustBeImport /\ globalIndex >= Len(m.globals.imports)
    THEN [ok |-> FALSE, err |-> ErrInitializerImport, type |-> globalType.valueType] ELSE
    IF mustBeImmutable /\ globalType.isMutable
    THEN [ok |-> FALSE, err |-> ErrInitializerImmutable, type |-> globalType.valueType]
    ELSE [ok |-> TRUE, err |-> "", type |-> globalType.valueType]

\* validateFunctionIndex: "" or the exception's message.
validateFunctionIndex(m, functionIndex) ==
    IF functionIndex >= indexSpaceSize(m.functions) THEN ErrInvalidIndex ELSE ""

\* validateFunctionType; the type index is 1-based here.
validateFunctionType(m, typeIndex) ==
    IF typeIndex > Len(m.types) THEN ErrInvalidIndex ELSE
    IF Len(m.types[typeIndex].results) > maxReturnValues
    THEN ErrTooManyReturnValues ELSE ""

\* The value type of each constant initializer expression.
InitializerConstType ==
    [i32_const |-> "i32", i64_const |-> "i64", f32_const |-> "f32",
     f64_const |-> "f64", v128_const |-> "v128", ref_null |-> "nullref"]

\* validateInitializer validating the index of global_get the way the index of
\* an exported global is validated: any global of the module will do.
validateInitializer_anyGlobal(m, expression, expectedType) ==
    CASE expression.type \in DOMAIN InitializerConstType ->
           IF validateType(expectedType, InitializerConstType[expression.type])
           THEN "" ELSE ErrTypeMismatch
      [] expression.type = "global_get" ->
           LET g == validateGlobalIndex(m, expression.ref, FALSE, FALSE, FALSE) IN
           IF ~g.ok THEN g.err ELSE
           IF validateType(expectedType, g.type) THEN "" ELSE ErrTypeMismatch
      [] expression.type = "ref_func" ->
           IF validateFunctionIndex(m, expression.ref) # ""
           THEN validateFunctionIndex(m, expression.ref) ELSE
           IF validateType(expectedType, "funcref") THEN "" ELSE ErrTypeMismatch
      [] OTHER -> ErrInvalidInitializer

\* validateInitializer
validateInitializer(m, expression, expectedType) ==
    CASE expression.type \in DOMAIN InitializerConstType ->
           IF validateType(expectedType, InitializerConstType[expression.type])
           THEN "" ELSE ErrTypeMismatch
      [] expression.type = "global_get" ->
           LET g == validateGlobalIndex(m, expression.ref, FALSE, TRUE, TRUE) IN
           IF ~g.ok THEN g.err ELSE
           IF validateType(expectedType, g.type) THEN "" ELSE ErrTypeMismatch
      [] expression.type = "ref_func" ->
           IF validateFunctionIndex(m, expression.ref) # ""
           THEN validateFunctionIndex(m, expression.ref) ELSE
           IF validateType(expectedType, "funcref") THEN "" ELSE ErrTypeMismatch
      [] OTHER -> ErrInvalidInitializer

\* The exception of the function type at typeIndex (1-based) of validateTypes.
validateTypes_type(m, typeIndex) ==
    LET functionType_ == m.types[typeIndex] IN
    IF ~validateTypeTuple(functionType_.params) THEN ErrInvalidValueType ELSE
    IF ~validateTypeTuple(functionType_.results) THEN ErrInvalidValueType ELSE
    IF Len(functionType_.results) > 1 /\ ~featureSpec.multipleResultsAndBlockParams
    THEN ErrMultipleReturnValues ELSE ""

\* IR::validateTypes: the first type that throws decides.
validateTypes(m) ==
    FirstError([typeIndex \in 1..Len(m.types) |-> validateTypes_type(m, typeIndex)])

\* The checks validateImports makes on one imported global.
validateImports_global(globalImport) ==
    IF ~validateGlobalType(globalImport.type) THEN ErrInvalidValueType ELSE
    IF ~featureSpec.importExportMutableGlobals /\ globalImport.type.isMutable
    THEN ErrMutableImport ELSE ""

\* IR::validateImports: the function, table, memory, global and exception-type
\* imports in that order, then the number of tables and of memories.
validateImports(m) ==
    FirstError(
        [i \in 1..Len(m.functions.imports) |->
            validateFunctionType(m, m.functions.imports[i].type)]
        \o [i \in 1..Len(m.tables.imports) |-> validateTableType(m.tables.imports[i].type)]
        \o [i \in 1..Len(m.memories.imports) |->
              validateMemoryType(m.memories.imports[i].type)]
        \o [i \in 1..Len(m.globals.imports) |-> validateImports_global(m.globals.imports[i])]
        \o [i \in 1..Len(m.exceptionTypes.imports) |->
              IF validateTypeTuple(m.exceptionTypes.imports[i].type.params)
              THEN "" ELSE ErrInvalidValueType]
        \o << IF ~featureSpec.referenceTypes /\ indexSpaceSize(m.tables) > 1
              THEN ErrTooManyTables ELSE "",
              IF indexSpaceSize(m.memories) > 1 THEN ErrTooManyMemories ELSE "" >>)

\* The switch of validateExports on the kind of one export.
validateExports_kind(m, exportIt) ==
    CASE exportIt.kind = "function" ->
           IF exportIt.index >= indexSpaceSize(m.functions) THEN ErrInvalidIndex ELSE ""
      [] exportIt.kind = "table" ->
           IF exportIt.index >= indexSpaceSize(m.tables) THEN ErrInvalidIndex ELSE ""
      [] exportIt.kind = "memory" ->
           IF exportIt.index >= indexSpaceSize(m.memories) THEN ErrInvalidIndex ELSE ""
      [] exportIt.kind = "global" ->
           validateGlobalIndex(m, exportIt.index, FALSE,
                               ~featureSpec.importExportMutableGlobals, FALSE).err
      [] exportIt.kind = "exceptionType" ->
           IF exportIt.index >= indexSpaceSize(m.exceptionTypes)
           THEN ErrInvalidIndex ELSE ""
      [] OTHER -> ErrUnknownExportKind

\* The loop of validateExports without the look-up of the name in exportNameSet.
RECURSIVE validateExports_from_noDuplicateCheck(_, _, _)
validateExports_from_noDuplicateCheck(m, exportIndex, exportNameSet) ==
    IF exportIndex > Len(m.exports) THEN "" ELSE
    LET exportIt == m.exports[exportIndex] IN
    IF validateExports_kind(m, exportIt) # "" THEN validateExports_kind(m, exportIt) ELSE
    validateExports_from_noDuplicateCheck(
        m, exportIndex + 1, exportNameSet \cup {exportIt.name})

\* The loop of validateExports from export exportIndex (1-based) on, with the
\* names of the exports before it in exportNameSet.
RECURSIVE validateExports_from(_, _, _)
validateExports_from(m, exportIndex, exportNameSet) ==
    IF exportIndex > Len(m.exports) THEN "" ELSE
    LET exportIt == m.exports[exportIndex] IN
    IF validateExports_kind(m, exportIt) # "" THEN validateExports_kind(m, exportIt) ELSE
    IF exportIt.name \in exportNameSet THEN ErrDuplicateExport ELSE
    validateExports_from(m, exportIndex + 1, exportNameSet \cup {exportIt.name})

\* IR::validateExports
validateExports(m) == validateExports_from(m, 1, {})

\* ------------------------------------------------------ the modules fed
SeqsUpTo(S, n) == UNION {[1..k -> S] : k \in 0..n}

SizeConstraints(min, max) == [min |-> min, max |-> max]
TableType(elementType, isShared, sizeConstraints) ==
    [elementType |-> elementType, isShared |-> isShared, size |-> sizeConstraints]
MemoryType(isShared, sizeConstraints) == [isShared |-> isShared, size |-> sizeConstraints]
GlobalType(valueType, isMutable) == [valueType |-> valueType, isMutable |-> isMutable]

\* The module a validation stream is constructed on: the sections the stream
\* constants above describe, one table, and no imports, globals or exports.
StreamModule ==
    [ types |-> types,
      functions |-> [imports |-> <<>>, defs |-> functionDefs],
      tables |-> [imports |-> <<>>,
                  defs |-> << [type |-> TableType("funcref", FALSE,
                                                  SizeConstraints(0, UINT64_MAX))] >>],
      memories |-> [imports |-> <<>>,
                    defs |-> [i \in 1..Len(memories) |->
                                [type |-> MemoryType(memories[i].isShared,
                                                     SizeConstraints(0, UINT64_MAX))]]],
      globals |-> [imports |-> <<>>, defs |-> <<>>],
      exceptionTypes |-> [imports |-> <<>>,
                          defs |-> [i \in 1..Len(exceptionTypes) |->
                                      [type |-> [params |-> exceptionTypes[i]]]]],
      exports |-> <<>> ]

\* Modules that differ in their globals: up to MaxGlobals imported globals of
\* either mutability, and at most one global the module defines.
GlobalTypes == {GlobalType(v, b) : v \in {"i32", "funcref"}, b \in BOOLEAN}
ModulesWithGlobals ==
    { [StreamModule EXCEPT !.globals = [imports |-> is, defs |-> ds]] :
        is \in SeqsUpTo({[type |-> t] : t \in GlobalTypes}, MaxGlobals),
        ds \in SeqsUpTo({[type |-> GlobalType("i32", b)] : b \in BOOLEAN}, 1) }

\* Modules that differ in their exports.  Their globals are an immutable
\* import (index 0) and a mutable definition (index 1); every other index
\* space has one entry, so that index 0 is in range and index 1 is not.
Exports ==
    { [name |-> n, kind |-> k, index |-> i] :
        n \in {"a", "b"}, k \in {"function", "table", "memory", "exceptionType"},
        i \in {0, 1} }
    \cup { [name |-> n, kind |-> "global", index |-> i] : n \in {"a", "b"}, i \in 0..2 }
    \cup { [name |-> n, kind |-> "invalid", index |-> 0] : n \in {"a", "b"} }
ModulesWithExports ==
    { [StreamModule EXCEPT
          !.functions = [imports |-> <<>>, defs |-> << [type |-> 1] >>],
          !.globals = [imports |-> << [type |-> GlobalType("i32", FALSE)] >>,
                       defs |-> << [type |-> GlobalType("i32", TRUE)] >>],
          !.exports = es] :
        es \in SeqsUpTo(Exports, MaxExports) }

\* Modules that differ in their type section and define no function.
FunctionTypes ==
    { FunctionType(<<>>, <<>>), FunctionType(<<"i32">>, <<"i32">>),
      FunctionType(<<"i32", "i64">>, <<"i64">>), FunctionType(<<>>, <<"i32", "i64">>),
      FunctionType(<<"v128">>, <<"i32", "i32">>) }
ModulesWithTypes ==
    { [StreamModule EXCEPT !.types = ts,
                           !.functions = [imports |-> <<>>, defs |-> <<>>]] :
        ts \in SeqsUpTo(FunctionTypes, MaxTypes) }

\* Modules with one imported function, table, memory or exception type.
TableTypes ==
    { TableType(e, s, SizeConstraints(min, max)) :
        e \in {"funcref", "anyref", "none"}, s \in BOOLEAN, min \in U64, max \in U64 }
MemoryTypes ==
    { MemoryType(s, SizeConstraints(min, max)) : s \in BOOLEAN, min \in U64, max \in U64 }
ModulesWithImports ==
    { [StreamModule EXCEPT !.functions.imports = << [type |-> i] >>] :
        i \in 1..(Len(types) + 1) }
    \cup { [StreamModule EXCEPT !.tables.imports = << [type |-> t] >>] :
             t \in {tt \in TableTypes : tt.size.min = 0 /\ tt.size.max = UINT64_MAX} }
    \cup { [StreamModule EXCEPT !.memories.imports = << [type |-> t] >>] :
             t \in {mt \in MemoryTypes : mt.size.min = 0 /\ mt.size.max = UINT64_MAX} }
    \cup { [StreamModule EXCEPT !.exceptionTypes.imports = << [type |-> [params |-> p]] >>] :
             p \in {<<"i32">>, <<"v128">>} }

Modules ==
    {StreamModule} \cup ModulesWithGlobals \cup ModulesWithExports
    \cup ModulesWithTypes \cup ModulesWithImports

\* The feature sets of the module pass, and those a stream is run with when
\* the multivalue extension may be disabled.
FeatureSpecs ==
    { [EnabledFeatures EXCEPT !.referenceTypes = r, !.multipleResultsAndBlockParams = m,
                              !.importExportMutableGlobals = g, !.atomics = a,
                              !.sharedTables = t] :
        r \in BOOLEAN, m \in BOOLEAN, g \in BOOLEAN, a \in BOOLEAN, t \in BOOLEAN }
StreamFeatureSpecs ==
    { [EnabledFeatures EXCEPT !.multipleResultsAndBlockParams = m] : m \in BOOLEAN }

\* The arguments of the validators that take some.
NoArgs == [validator |-> "none"]
InitializerExpressions ==
    { [type |-> t, ref |-> 0] :
        t \in {"i32_const", "i64_const", "f32_const", "f64_const", "v128_const",
               "ref_null", "invalid"} }
    \cup { [type |-> t, ref |-> i] :
             t \in {"global_get", "ref_func"}, i \in 0..(MaxGlobals + 1) }
ExpectedTypes == {"i32", "funcref", "anyref"}

\* ------------------------------------------------- IR::CodeValidationStream
\* The constructor: the function's type is module.types[functionDef.type.index]
\* (1-based here); the local types are validated, locals are the parameters
\* followed by the non-parameter locals, and the function frame is pushed on
\* the empty stacks.
Construct(features, catches) ==
    /\ featureSpec = features
    /\ callerCatches = catches
    /\ \E i \in 1..Len(functionDefs) : functionType = types[functionDefs[i].type]
    /\ \A i \in 1..Len(nonParameterLocalTypes) : validateValueType(nonParameterLocalTypes[i])
    /\ locals = functionType.params \o nonParameterLocalTypes
    /\ stack = <<>>
    /\ controlStack = pushControlStack(<<>>, <<>>, "function", functionType.results,
                                       functionType.results, <<>>)
    /\ lastOp = ""
    /\ lastError = ""
    /\ failed = FALSE
    /\ outcome = "none"
    /\ numOps = 0
    /\ numOpens = 0
    /\ numEnds = 0
    /\ pass = "code"
    /\ module = StreamModule
    /\ args = NoArgs

Init == Construct(EnabledFeatures, FALSE)

InitCatch == Construct(EnabledFeatures, TRUE)

\* VISIT_OPCODE without validateNonEmptyControlStack: a call made after the
\* function frame was closed returns without touching the stream.
VISIT_OPCODE_unchecked(name, r) ==
    /\ pass = "code"
    /\ outcome = "none"
    /\ failed => callerCatches
    /\ numOps < MaxOps
    /\ LET res == IF Len(controlStack) = 0 THEN Return(stack, controlStack) ELSE r IN
       /\ Len(res.stack) <= MaxStack
       /\ Len(res.controlStack) <= MaxControl
       /\ stack' = res.stack
       /\ controlStack' = res.controlStack
       /\ lastError' = res.err
       /\ failed' = (failed \/ ~res.ok)
    /\ lastOp' = name
    /\ numOps' = numOps + 1
    /\ numOpens' = numOpens + (IF name \in {"block", "loop", "if", "try"} THEN 1 ELSE 0)
    /\ numEnds' = numEnds + (IF name = "end" THEN 1 ELSE 0)
    /\ UNCHANGED <<featureSpec, functionType, locals, callerCatches, outcome,
                   pass, module, args>>

\* VISIT_OPCODE: one operator call on the stream.  validateNonEmptyControlStack
\* throws before the operator's own method runs; r is what that method leaves.
VISIT_OPCODE(name, r) ==
    /\ pass = "code"
    /\ outcome = "none"
    /\ failed => callerCatches
    /\ numOps < MaxOps
    /\ LET res == IF Len(controlStack) = 0
                  THEN Throw(ErrEmptyControlStack, stack, controlStack)
                  ELSE r IN
       /\ Len(res.stack) <= MaxStack
       /\ Len(res.controlStack) <= MaxControl
       /\ stack' = res.stack
       /\ controlStack' = res.controlStack
       /\ lastError' = res.err
       /\ failed' = (failed \/ ~res.ok)
    /\ lastOp' = name
    /\ numOps' = numOps + 1
    /\ numOpens' = numOpens + (IF name \in {"block", "loop", "if", "try"} THEN 1 ELSE 0)
    /\ numEnds' = numEnds + (IF name = "end" THEN 1 ELSE 0)
    /\ UNCHANGED <<featureSpec, functionType, locals, callerCatches, outcome,
                   pass, module, args>>

\* Branch and catch depths fed: every depth in range and one that is not.
Depths == 0..MaxControl

Call_block == \E imm \in BlockTypeImms : VISIT_OPCODE("block", block(stack, controlStack, imm))
Call_loop == \E imm \in BlockTypeImms : VISIT_OPCODE("loop", loop(stack, controlStack, imm))
Call_if == \E imm \in BlockTypeImms : VISIT_OPCODE("if", if_(stack, controlStack, imm))
Call_try == \E imm \in BlockTypeImms : VISIT_OPCODE("try", try_(stack, controlStack, imm))
Call_else == VISIT_OPCODE("else", else_(stack, controlStack))
Call_end == VISIT_OPCODE("end", end(stack, controlStack))
Call_catch ==
    \E i \in 0..Len(exceptionTypes) : VISIT_OPCODE("catch", catch_(stack, controlStack, i))
Call_catch_all == VISIT_OPCODE("catch_all", catch_all(stack, controlStack))
Call_return == VISIT_OPCODE("return", return_(stack, controlStack))
Call_br == \E d \in Depths : VISIT_OPCODE("br", br(stack, controlStack, d))
Call_br_table ==
    \E i \in 1..Len(branchTables), d \in Depths :
        VISIT_OPCODE("br_table",
                     br_table(stack, controlStack,
                              [branchTableIndex |-> i, defaultTargetDepth |-> d]))
Call_br_if == \E d \in Depths : VISIT_OPCODE("br_if", br_if(stack, controlStack, d))
Call_unreachable == VISIT_OPCODE("unreachable", unreachable(stack, controlStack))
Call_drop == VISIT_OPCODE("drop", drop(stack, controlStack))
Call_select ==
    \E t \in {"any", "i32"} : VISIT_OPCODE("select", select(stack, controlStack, t))
Call_local_get ==
    \E i \in 0..Len(locals) : VISIT_OPCODE("local.get", local_get(stack, controlStack, i))
Call_local_set ==
    \E i \in 0..Len(locals) : VISIT_OPCODE("local.set", local_set(stack, controlStack, i))
Call_local_tee ==
    \E i \in 0..Len(locals) : VISIT_OPCODE("local.tee", local_tee(stack, controlStack, i))
Call_throw ==
    \E i \in 0..Len(exceptionTypes) : VISIT_OPCODE("throw", throw_(stack, controlStack, i))
Call_rethrow == \E d \in Depths : VISIT_OPCODE("rethrow", rethrow(stack, controlStack, d))
Call_nonParametric ==
    \E c \in NonParametricCalls :
        VISIT_OPCODE(c.name, VALIDATE_OP(stack, controlStack, c.name, c.imm))

\* finish() taking the function frame for closed.
finishThrows_offByOne(cs) == Len(cs) > 1

\* finish(): throws when the control stack is not empty.
finishThrows(cs) == Len(cs) # 0

finish ==
    /\ pass = "code"
    /\ outcome = "none"
    /\ failed => callerCatches
    /\ outcome' = IF finishThrows(controlStack) THEN "rejected" ELSE "accepted"
    /\ lastError' = IF finishThrows(controlStack) THEN ErrEndOfCode ELSE ""
    /\ UNCHANGED <<featureSpec, functionType, locals, controlStack, stack, lastOp,
                   failed, callerCatches, numOps, numOpens, numEnds,
                   pass, module, args>>

Next ==
    \/ Call_block \/ Call_loop \/ Call_if \/ Call_try \/ Call_else \/ Call_end
    \/ Call_catch \/ Call_catch_all \/ Call_return \/ Call_br \/ Call_br_table
    \/ Call_br_if \/ Call_unreachable \/ Call_drop \/ Call_select
    \/ Call_local_get \/ Call_local_set \/ Call_local_tee \/ Call_throw
    \/ Call_rethrow \/ Call_nonParametric
    \/ finish

Spec == Init /\ [][Next]_vars

SpecCatch == InitCatch /\ [][Next]_vars

\* ------------------------------------------------------ the module pass
\* The module-level validators are called on a module no stream is open on.
InitModule ==
    /\ pass = "module"
    /\ module \in Modules
    /\ featureSpec \in FeatureSpecs
    /\ args = NoArgs
    /\ functionType = FunctionType(<<>>, <<>>)
    /\ locals = <<>>
    /\ stack = <<>>
    /\ controlStack = <<>>
    /\ lastOp = ""
    /\ lastError = ""
    /\ failed = FALSE
    /\ callerCatches = FALSE
    /\ outcome = "none"
    /\ numOps = 0
    /\ numOpens = 0
    /\ numEnds = 0

\* A stream on StreamModule with the multivalue extension enabled or disabled.
InitFeatures == \E f \in StreamFeatureSpecs : Construct(f, FALSE)

\* One call of a module-level validator: err is the message of the exception
\* it threw, "" if it returned.  The module is read only.
ModuleCall(name, a, err) ==
    /\ pass = "module"
    /\ lastOp' = name
    /\ args' = a
    /\ lastError' = err
    /\ UNCHANGED <<featureSpec, functionType, locals, controlStack, stack, failed,
                   callerCatches, outcome, numOps, numOpens, numEnds, pass, module>>

Call_validateTypes == ModuleCall("validateTypes", NoArgs, validateTypes(module))
Call_validateImports == ModuleCall("validateImports", NoArgs, validateImports(module))
Call_validateExports == ModuleCall("validateExports", NoArgs, validateExports(module))
Call_validateInitializer ==
    /\ module \in ModulesWithGlobals
    /\ \E e \in InitializerExpressions, t \in ExpectedTypes :
           ModuleCall("validateInitializer", [expression |-> e, expectedType |-> t],
                      validateInitializer(module, e, t))
Call_validateSizeConstraints ==
    /\ module = StreamModule
    /\ \E min \in U64, max \in U64, maxMax \in U64 :
           ModuleCall("validateSizeConstraints",
                      [size |-> SizeConstraints(min, max), maxMax |-> maxMax],
                      validateSizeConstraints(SizeConstraints(min, max), maxMax))
Call_validateTableType ==
    /\ module = StreamModule
    /\ \E t \in TableTypes :
           ModuleCall("validateTableType", [type |-> t], validateTableType(t))
Call_validateMemoryType ==
    /\ module = StreamModule
    /\ \E t \in MemoryTypes :
           ModuleCall("validateMemoryType", [type |-> t], validateMemoryType(t))

NextModule ==
    \/ Call_validateTypes \/ Call_validateImports \/ Call_validateExports
    \/ Call_validateInitializer \/ Call_validateSizeConstraints
    \/ Call_validateTableType \/ Call_validateMemoryType

SpecModule == InitModule /\ [][NextModule]_vars

SpecFeatures == (InitModule \/ InitFeatures) /\ [][NextModule \/ Next]_vars

\* A stream on a module with or without the features that gate operators:
\* simd, referenceTypes and exceptionHandling.
GateFeatureSpecs ==
    { [EnabledFeatures EXCEPT !.simd = s, !.referenceTypes = r, !.exceptionHandling = e] :
        s \in BOOLEAN, r \in BOOLEAN, e \in BOOLEAN }

InitGates == \E f \in GateFeatureSpecs : Construct(f, FALSE)

SpecGates == InitGates /\ [][Next]_vars


\* ------------------------------------------------------------ vocabulary
\* An operator position: the stream is open, nothing has thrown and the
\* function frame has not been closed.
AtOperator == outcome = "none" /\ ~failed /\ controlStack # <<>>

\* The operand stack st satisfies typeTuple in the top frame of cs: the last
\* entry is matched against the top of the stack, and an entry that falls at or
\* below the frame's floor is matched only in an unreachable frame.
Satisfies(st, cs, typeTuple) ==
    \A i \in 1..Len(typeTuple) :
        LET position == Len(st) - (Len(typeTuple) - i) IN
        IF position > Back(cs).outerStackSize
        THEN isSubtype(st[position], typeTuple[i])
        ELSE ~Back(cs).isReachable

\* st without its top entry, unless it is at the floor of the top frame of cs.
BelowTop(st, cs) ==
    IF Len(st) > Back(cs).outerStackSize THEN SubSeq(st, 1, Len(st) - 1) ELSE st

IsPrefix(s, t) == Len(s) <= Len(t) /\ s = SubSeq(t, 1, Len(s))

\* The tuple a branch to frame delivers.
BranchParams(frame) == IF frame.type = "loop" THEN frame.params ELSE frame.results

\* ----------------------------------------------------------------- claims
\* C1: after any sequence of operator calls, finish() throws "end of code
\* reached before end of function" exactly when the control stack is not
\* empty, and succeeds otherwise.
C1_FinishFailsIffControlStackNonEmpty ==
    outcome # "none" =>
        /\ (outcome = "rejected") <=> (Len(controlStack) # 0)
        /\ (outcome = "rejected") => (lastError = ErrEndOfCode)
        /\ (outcome = "accepted") => (lastError = "")

\* finish() threw although an end had been accepted: the end closed an inner
\* frame and the function frame is still open.
C1_Witness ==
    outcome = "rejected" /\ Len(controlStack) = 1 /\ numEnds >= 1 /\ ~failed

\* C2: a body is accepted (no call threw and finish() returned) only if it
\* has one end more than block, loop, if and try operators and its last
\* operator is the end that empties the control stack; once the control stack
\* is empty every further operator throws "Expected non-empty control stack".
C2_AcceptedOnlyIfBalanced ==
    /\ (outcome = "accepted" /\ ~failed) =>
           (numEnds = numOpens + 1 /\ lastOp = "end" /\ controlStack = <<>>)
    /\ (controlStack = <<>> /\ ~failed) => lastOp = "end"
    /\ (controlStack = <<>> /\ failed) => lastError = ErrEmptyControlStack

\* An accepted body with a nested control structure.
C2_Witness == outcome = "accepted" /\ ~failed /\ numOpens >= 1 /\ numOps = MaxOps

\* C3: while the control stack is not empty the operand stack is never lower
\* than the top frame's outerStackSize, and an operator that does not close
\* the top frame leaves the entries below that floor as they were.
C3_StackNeverBelowFloor ==
    /\ [](controlStack # <<>> => Len(stack) >= Back(controlStack).outerStackSize)
    /\ [][(controlStack # <<>> /\ Len(controlStack') >= Len(controlStack))
            => /\ Len(stack') >= Back(controlStack).outerStackSize
               /\ SubSeq(stack', 1, Back(controlStack).outerStackSize)
                    = SubSeq(stack, 1, Back(controlStack).outerStackSize)]_vars

\* drop was accepted in an unreachable frame opened above a value of the
\* enclosing frame, and that value is still there.
C3_Witness ==
    /\ AtOperator /\ lastOp = "drop" /\ Len(controlStack) = 2
    /\ ~Back(controlStack).isReachable
    /\ Back(controlStack).outerStackSize = 1 /\ Len(stack) = 1

\* C4 as stated: after the end of the function frame the operand stack holds
\* exactly the function's result tuple.
C4_ResidualStackIsResults ==
    (controlStack = <<>> /\ ~failed) => stack = functionType.results

\* C4 amended: the end of the function frame is accepted only on an operand
\* stack that satisfies the function's result tuple (in a reachable frame:
\* exactly as many values as results), and it leaves the operand stack empty;
\* the results are pushed back only by an end that leaves a frame open.
C4_FunctionEndConsumesResults ==
    [][(Len(controlStack) = 1 /\ controlStack' = <<>>)
         => /\ Satisfies(stack, controlStack, functionType.results)
            /\ Len(stack) <= Len(functionType.results)
            /\ Back(controlStack).isReachable
                 => Len(stack) = Len(functionType.results)
            /\ stack' = <<>>]_vars

\* The function frame of a function with results was closed from a reachable
\* frame.
C4_Witness ==
    /\ controlStack = <<>> /\ ~failed /\ outcome = "none"
    /\ functionType.results # <<>> /\ stack = <<>>
    /\ lastOp = "end" /\ numOps = Len(functionType.results) + 1

\* C5: at the floor of an unreachable frame a pop succeeds for every expected
\* type and leaves the operand stack unchanged, and no peek at any depth
\* throws "stack was empty" in an unreachable frame.
C5_UnreachablePopNeverEmpty ==
    (AtOperator /\ ~Back(controlStack).isReachable) =>
        /\ \A t \in ValueTypes, d \in 0..MaxStack :
               peekAndValidateOperand(stack, controlStack, d, t).err # ErrStackEmpty
        /\ Len(stack) = Back(controlStack).outerStackSize =>
               \A t \in ValueTypes :
                   LET p == popAndValidateOperand(stack, controlStack, t) IN
                   /\ p.ok /\ p.stack = stack
                   /\ popAndValidateOperand(p.stack, controlStack, t) = p

\* drop was accepted right after the function frame became unreachable, that
\* is, at its floor.
C5_Witness ==
    /\ AtOperator /\ lastOp = "drop" /\ numOps = 2
    /\ ~Back(controlStack).isReachable /\ Len(controlStack) = 1


\* The immediates br_table is fed.
BranchTableImms ==
    { [branchTableIndex |-> i, defaultTargetDepth |-> d] :
        i \in 1..Len(branchTables), d \in Depths }

\* C6: in a reachable frame whose operand stack is at the frame's floor,
\* every pop and every operator that starts by popping throws "stack was
\* empty" and changes nothing, whatever lies below the floor; and a frame that
\* block, loop, if or try opens is reachable even inside an unreachable
\* region, so a pop at its floor throws too.
C6_ReachablePopAtFloorThrows ==
    AtOperator =>
        /\ (Back(controlStack).isReachable
              /\ Len(stack) = Back(controlStack).outerStackSize) =>
               /\ \A t \in ValueTypes :
                      LET p == popAndValidateOperand(stack, controlStack, t) IN
                      ~p.ok /\ p.err = ErrStackEmpty /\ p.stack = stack
               /\ \A r \in {drop(stack, controlStack)}
                          \cup {select(stack, controlStack, t) : t \in {"any", "i32"}}
                          \cup {br_table(stack, controlStack, imm) : imm \in BranchTableImms}
                          \cup {local_set(stack, controlStack, i) : i \in 0..(Len(locals) - 1)}
                          \cup {local_tee(stack, controlStack, i) : i \in 0..(Len(locals) - 1)}
                          \cup {VALIDATE_OP(stack, controlStack, "i32_add", NoImm)} :
                      r = Throw(ErrStackEmpty, stack, controlStack)
        /\ \A imm \in BlockTypeImms :
               \A r \in {block(stack, controlStack, imm), loop(stack, controlStack, imm),
                         if_(stack, controlStack, imm), try_(stack, controlStack, imm)} :
                   r.ok =>
                       /\ Back(r.controlStack).isReachable
                       /\ Len(r.stack) = Back(r.controlStack).outerStackSize =>
                              drop(r.stack, r.controlStack)
                                  = Throw(ErrStackEmpty, r.stack, r.controlStack)

\* drop threw "stack was empty" at the floor of a frame opened inside an
\* unreachable region, above a value of the enclosing frame.
C6_Witness ==
    /\ lastOp = "drop" /\ lastError = ErrStackEmpty
    /\ Len(controlStack) = 2
    /\ ~controlStack[1].isReachable /\ controlStack[2].isReachable
    /\ controlStack[2].outerStackSize = 1 /\ Len(stack) = 1

\* C7: br depth is accepted exactly when depth is less than the control-stack
\* size and the operand stack satisfies the branch parameters of
\* controlStack[size - depth - 1] (params of a loop, results of any other
\* frame), last entry topmost; a depth out of range throws an invalid index.
C7_BrChecksTargetBranchParams ==
    AtOperator =>
        \A depth \in Depths :
            LET r == br(stack, controlStack, depth) IN
            /\ r.ok <=>
                   /\ depth < Len(controlStack)
                   /\ Satisfies(stack, controlStack,
                                BranchParams(controlStack[Len(controlStack) - depth]))
            /\ depth >= Len(controlStack) =>
                   r = Throw(ErrInvalidIndex, stack, controlStack)

\* br 0 was accepted in a reachable loop with an i64 parameter, in a function
\* whose result is i32: the branch delivered the loop's parameter, which
\* neither the loop's results nor the function's results would accept.
C7_Witness ==
    /\ AtOperator /\ lastOp = "br" /\ numOps = 3 /\ Len(controlStack) = 2
    /\ controlStack[2].type = "loop" /\ controlStack[2].params = <<"i64">>
    /\ controlStack[2].outerStackSize = 0 /\ controlStack[1].isReachable
    /\ functionType.results = <<"i32">>

\* C8: br_table is accepted only if an i32 index is on top, the default depth
\* and every listed depth are in range, every listed target has as many branch
\* parameters as the default target, and the operand stack below the index
\* satisfies the branch parameters of every listed target and of the default
\* target.  The arity exception is thrown only when some listed target's
\* arity differs, and always when the first listed target's does.
C8_BrTableChecksEveryTarget ==
    AtOperator =>
        \A imm \in BranchTableImms :
            LET r == br_table(stack, controlStack, imm)
                targetDepths == branchTables[imm.branchTableIndex]
                size == Len(controlStack)
                below == BelowTop(stack, controlStack)
                Target(depth) == controlStack[size - depth]
                indexOnTop == Satisfies(stack, controlStack, <<"i32">>)
                inRange == /\ imm.defaultTargetDepth < size
                           /\ \A i \in 1..Len(targetDepths) : targetDepths[i] < size
            IN
            /\ r.ok =>
                   /\ indexOnTop
                   /\ inRange
                   /\ \A i \in 1..Len(targetDepths) :
                          /\ Len(BranchParams(Target(targetDepths[i])))
                               = Len(BranchParams(Target(imm.defaultTargetDepth)))
                          /\ Satisfies(below, controlStack,
                                       BranchParams(Target(targetDepths[i])))
                   /\ Satisfies(below, controlStack,
                                BranchParams(Target(imm.defaultTargetDepth)))
            /\ r.err = ErrBrTableArity =>
                   /\ inRange
                   /\ \E i \in 1..Len(targetDepths) :
                          Len(BranchParams(Target(targetDepths[i])))
                            # Len(BranchParams(Target(imm.defaultTargetDepth)))
            /\ (/\ indexOnTop /\ inRange /\ Len(targetDepths) > 0
                /\ Len(BranchParams(Target(targetDepths[1])))
                     # Len(BranchParams(Target(imm.defaultTargetDepth)))) =>
                   r.err = ErrBrTableArity

\* br_table threw the arity exception: its targets were a block with one
\* result and the function frame of a function without results.
C8_Witness ==
    /\ lastOp = "br_table" /\ lastError = ErrBrTableArity
    /\ Len(controlStack) = 2 /\ controlStack[1].results = <<>>
    /\ controlStack[2].results = <<"i32">>

\* C9: end on a frame of type ifThen throws "else-less if must have identity
\* signature" and changes nothing whenever the frame's results differ from its
\* elseParams, whatever the operand stack and the reachability of the frame;
\* it is accepted only when they are equal.
C9_ElseLessIfNeedsIdentity ==
    (AtOperator /\ Back(controlStack).type = "ifThen") =>
        LET r == end(stack, controlStack) IN
        /\ Back(controlStack).results # Back(controlStack).elseParams =>
               r = Throw(ErrElseLessIf, stack, controlStack)
        /\ r.ok => Back(controlStack).results = Back(controlStack).elseParams

\* end threw the identity-signature exception on an unreachable if frame.
C9_Witness ==
    /\ lastOp = "end" /\ lastError = ErrElseLessIf
    /\ Back(controlStack).type = "ifThen" /\ ~Back(controlStack).isReachable

\* C10 as stated: once an operator call has thrown, no continuation of calls
\* followed by finish() ends with the body accepted.
C10_NoAcceptanceAfterFailure ==
    failed => outcome # "accepted"

\* C10 amended: an operator call that throws pushes nothing and leaves the
\* control stack as it was (only the operands it popped before the failing
\* check are gone), and the stream marks the failure nowhere: finish() after it
\* still throws exactly when the control stack is not empty.
C10_FailingCallOnlyPops ==
    /\ [][(numOps' = numOps + 1 /\ lastError' # "")
            => /\ failed'
               /\ controlStack' = controlStack
               /\ IsPrefix(stack', stack)]_vars
    /\ [][(outcome = "none" /\ outcome' # "none")
            => /\ (outcome' = "accepted") <=> (controlStack = <<>>)
               /\ stack' = stack /\ controlStack' = controlStack]_vars

\* i32.add threw on an i64 operand after popping the i32 above it.
C10_Witness ==
    /\ lastOp = "i32_add" /\ lastError = ErrTypeMismatch /\ numOps = 3
    /\ stack = <<"i64">> /\ callerCatches

\* The result tuples a function can declare, up to two results.
ResultTuples == SeqsUpTo({"i32", "i64", "f32", "f64", "funcref", "anyref"}, 2)

\* C12: for any declared result tuple, unreachable followed by the closing end
\* validates: unreachable empties the operand stack, the end's pops of the
\* declared results are satisfied by the bottom type, the end closes the
\* function frame and finish() then returns.
C12_UnreachableThenEndValidates ==
    /\ (AtOperator /\ Len(controlStack) = 1) =>
           LET u == unreachable(stack, controlStack)
               e == end(u.stack, u.controlStack) IN
           /\ u.ok /\ u.stack = <<>>
           /\ e.ok /\ e.stack = <<>> /\ e.controlStack = <<>>
           /\ ~finishThrows(e.controlStack)
    /\ (AtOperator /\ numOps = 0) =>
           \A results \in ResultTuples :
               LET cs == pushControlStack(<<>>, <<>>, "function", results, results, <<>>)
                   u == unreachable(<<>>, cs)
                   e == end(u.stack, u.controlStack) IN
               u.ok /\ e.ok /\ e.controlStack = <<>> /\ ~finishThrows(e.controlStack)

\* The body of a function with the results (i32, i64) was accepted after two
\* operators: no operator but unreachable lets the end follow it.
C12_Witness ==
    /\ outcome = "accepted" /\ ~failed /\ numOps = 2 /\ lastOp = "end"
    /\ functionType.results = <<"i32", "i64">>

\* C13: br_table with an empty branch table, a default depth in range and an
\* i32 index on top is accepted exactly when the operand stack below the index
\* satisfies the branch parameters of the default target.
C13_EmptyBrTableChecksDefault ==
    AtOperator =>
        \A i \in 1..Len(branchTables), d \in Depths :
            (/\ branchTables[i] = <<>>
             /\ d < Len(controlStack)
             /\ Satisfies(stack, controlStack, <<"i32">>)) =>
                LET r == br_table(stack, controlStack,
                                  [branchTableIndex |-> i, defaultTargetDepth |-> d]) IN
                r.ok <=> Satisfies(BelowTop(stack, controlStack), controlStack,
                                   BranchParams(controlStack[Len(controlStack) - d]))

\* br_table was accepted in the function frame of a function with the result
\* i32: with one frame open only the empty table has all its depths in range.
C13_Witness ==
    /\ AtOperator /\ lastOp = "br_table" /\ numOps = 3
    /\ Len(controlStack) = 1 /\ functionType.results = <<"i32">>

\* The states C14 is about: an unreachable frame whose operand stack is at
\* the floor once the condition of select is popped.
C14_AtFloorAfterCondition ==
    /\ AtOperator /\ ~Back(controlStack).isReachable
    /\ Satisfies(stack, controlStack, <<"i32">>)
    /\ Len(BelowTop(stack, controlStack)) = Back(controlStack).outerStackSize

\* C14 as stated: there the untyped select is accepted and pushes one operand
\* of type any.
C14_SelectOfUnknownsPushesAny ==
    C14_AtFloorAfterCondition =>
        select(stack, controlStack, "any")
            = Return(Append(BelowTop(stack, controlStack), "any"), controlStack)

\* C14 amended: there the untyped select is accepted and pushes one operand of
\* type none, the bottom type every expected type accepts (any is the top
\* type, which accepts every operand).
C14_SelectOfUnknownsPushesNone ==
    C14_AtFloorAfterCondition =>
        LET r == select(stack, controlStack, "any") IN
        /\ r = Return(Append(BelowTop(stack, controlStack), "none"), controlStack)
        /\ \A t \in ValueTypes : popAndValidateOperand(r.stack, r.controlStack, t).ok

\* select was accepted at the floor of the unreachable function frame and left
\* the one operand it pushed.
C14_Witness ==
    /\ AtOperator /\ lastOp = "select" /\ Len(controlStack) = 1
    /\ ~Back(controlStack).isReachable /\ stack = <<"none">>

\* A module-level validator was called last.
CalledLast(name) == pass = "module" /\ lastOp = name

\* C15: validateInitializer accepts a global_get(i) initializer only if i is
\* in range, indexes an imported global, that global is immutable and its
\* value type is a subtype of the expected type (and it accepts all of
\* those); a global_get of a global the module defines or of a mutable import
\* is always rejected.
C15_GlobalGetInitializer ==
    (CalledLast("validateInitializer") /\ args.expression.type = "global_get") =>
        LET i == args.expression.ref
            imports == module.globals.imports
            defs == module.globals.defs IN
        /\ lastError = "" <=>
               /\ i < Len(imports) + Len(defs)
               /\ i < Len(imports)
               /\ ~imports[i + 1].type.isMutable
               /\ isSubtype(imports[i + 1].type.valueType, args.expectedType)
        /\ (Len(imports) <= i /\ i < Len(imports) + Len(defs)) =>
               lastError = ErrInitializerImport
        /\ (i < Len(imports) /\ imports[i + 1].type.isMutable) =>
               lastError = ErrInitializerImmutable

\* A global_get of an imported immutable funcref global was accepted as an
\* initializer of type anyref.
C15_Witness ==
    /\ CalledLast("validateInitializer") /\ lastError = ""
    /\ args.expression.type = "global_get" /\ args.expectedType = "anyref"
    /\ module.globals.imports[args.expression.ref + 1].type.valueType = "funcref"
    /\ module.globals.defs # <<>>

\* The kind of an export is known and its index is within the index space of
\* its kind.
KnownKindInRange(m, exportIt) ==
    /\ exportIt.kind \in {"function", "table", "memory", "global", "exceptionType"}
    /\ exportIt.index <
           indexSpaceSize(CASE exportIt.kind = "function" -> m.functions
                            [] exportIt.kind = "table" -> m.tables
                            [] exportIt.kind = "memory" -> m.memories
                            [] exportIt.kind = "global" -> m.globals
                            [] OTHER -> m.exceptionTypes)

\* The exports (1-based) whose name is the name of an earlier export.
Duplicates(exports) ==
    {j \in 1..Len(exports) : \E i \in 1..(j - 1) : exports[i].name = exports[j].name}

ExportsMutableGlobal(m, exportIt) ==
    /\ exportIt.kind = "global"
    /\ exportIt.index < indexSpaceSize(m.globals)
    /\ getType(m.globals, exportIt.index).isMutable

\* C17: with importExportMutableGlobals disabled validateExports rejects a
\* module that exports a mutable global (with the mutability exception when
\* that export is the first) and validateImports rejects a module that
\* imports a mutable global (with "mutable globals cannot be imported" when
\* the imports' value types are valid); with the feature enabled the export
\* of a mutable global within range is accepted and neither exception is
\* thrown.
C17_MutableGlobalsNeedFeature ==
    /\ CalledLast("validateExports") =>
           LET exports == module.exports IN
           /\ (/\ ~featureSpec.importExportMutableGlobals
                /\ \E i \in 1..Len(exports) : ExportsMutableGlobal(module, exports[i]))
                  => lastError # ""
           /\ (Len(exports) >= 1 /\ ExportsMutableGlobal(module, exports[1])) =>
                  /\ ~featureSpec.importExportMutableGlobals
                        => lastError = ErrInitializerImmutable
                  /\ featureSpec.importExportMutableGlobals
                        => (lastError # ErrInitializerImmutable
                            /\ (Len(exports) = 1 => lastError = ""))
    /\ (CalledLast("validateImports") /\ module \in ModulesWithGlobals) =>
           LET imports == module.globals.imports
               mutable == \E i \in 1..Len(imports) : imports[i].type.isMutable
               valid == \A i \in 1..Len(imports) :
                            validateValueType(imports[i].type.valueType) IN
           /\ (~featureSpec.importExportMutableGlobals /\ mutable) =>
                  /\ lastError \in {ErrMutableImport, ErrInvalidValueType}
                  /\ valid => lastError = ErrMutableImport
           /\ featureSpec.importExportMutableGlobals =>
                  /\ lastError # ErrMutableImport
                  /\ valid => lastError = ""

\* The export of the module's mutable global was rejected with the feature
\* disabled.
C17_Witness ==
    /\ CalledLast("validateExports") /\ ~featureSpec.importExportMutableGlobals
    /\ Len(module.exports) = 1 /\ ExportsMutableGlobal(module, module.exports[1])
    /\ lastError = ErrInitializerImmutable

\* C18: validate(size, maxMax) accepts exactly when min <= effMax and
\* effMax <= maxMax, where effMax is maxMax for a max of UINT64_MAX and max
\* otherwise.  So min = max validates for a max within the limit, and
\* min = max + 1 throws "disjoint size bounds".
C18_SizeConstraints ==
    CalledLast("validateSizeConstraints") =>
        LET min == args.size.min
            max == args.size.max
            maxMax == args.maxMax
            effMax == IF max = UINT64_MAX THEN maxMax ELSE max IN
        /\ lastError = "" <=> (min <= effMax /\ effMax <= maxMax)
        /\ (min = max /\ max <= maxMax) => lastError = ""
        /\ (max # UINT64_MAX /\ min = max + 1) => lastError = ErrDisjointSizeBounds

\* A size without a maximum whose minimum is the limit was accepted.
C18_Witness ==
    /\ CalledLast("validateSizeConstraints") /\ lastError = ""
    /\ args.size.max = UINT64_MAX /\ args.maxMax < UINT64_MAX
    /\ args.size.min = args.maxMax /\ args.size.min > 0

\* C19: a shared memory type without a maximum is rejected under every
\* feature set: for the missing atomics feature, else with "shared memories
\* must have a maximum size", unless its minimum already exceeds the limit.
\* The same holds for a shared table type and sharedTables.  A non-shared
\* memory, or table of a valid element type, without a maximum and with a
\* minimum within the limit is accepted.
C19_SharedNeedsMaximum ==
    /\ (CalledLast("validateMemoryType") /\ args.type.size.max = UINT64_MAX) =>
           /\ args.type.isShared =>
                  /\ lastError # ""
                  /\ args.type.size.min <= maxMemoryPages =>
                         lastError = IF featureSpec.atomics
                                     THEN ErrSharedMemoryMax ELSE ErrFeature
           /\ (~args.type.isShared /\ args.type.size.min <= maxMemoryPages) =>
                  lastError = ""
    /\ (CalledLast("validateTableType") /\ args.type.size.max = UINT64_MAX) =>
           LET validElementType ==
                   \/ args.type.elementType = "funcref" /\ featureSpec.mvp
                   \/ args.type.elementType = "anyref" /\ featureSpec.referenceTypes IN
           /\ args.type.isShared =>
                  /\ lastError # ""
                  /\ (validElementType /\ args.type.size.min <= maxTableElems) =>
                         lastError = IF featureSpec.sharedTables
                                     THEN ErrSharedTableMax ELSE ErrFeature
           /\ (/\ ~args.type.isShared /\ validElementType
                /\ args.type.size.min <= maxTableElems) =>
                  lastError = ""

\* A shared memory without a maximum was rejected although atomics is enabled.
C19_Witness ==
    /\ CalledLast("validateMemoryType") /\ featureSpec.atomics
    /\ args.type.isShared /\ args.type.size.max = UINT64_MAX
    /\ lastError = ErrSharedMemoryMax

\* C20: with multipleResultsAndBlockParams disabled validateTypes rejects
\* every module with a function type of more than one result, and block,
\* loop, if and try throw, changing nothing, for every indexed block type that
\* has parameters or more than one result; with the feature enabled none of
\* the multivalue exceptions is thrown.
C20_MultivalueNeedsFeature ==
    /\ CalledLast("validateTypes") =>
           LET multiple == {i \in 1..Len(module.types) : Len(module.types[i].results) > 1} IN
           /\ (~featureSpec.multipleResultsAndBlockParams /\ multiple # {}) =>
                  /\ lastError \in {ErrMultipleReturnValues, ErrInvalidValueType}
                  /\ (\A i \in 1..Len(module.types) :
                         /\ validateTypeTuple(module.types[i].params)
                         /\ validateTypeTuple(module.types[i].results))
                       => lastError = ErrMultipleReturnValues
           /\ featureSpec.multipleResultsAndBlockParams =>
                  lastError # ErrMultipleReturnValues
    /\ (pass = "code" /\ AtOperator) =>
           \A imm \in BlockTypeImms :
               (imm.format = "functionType" /\ imm.index <= Len(types)) =>
                   \A r \in {block(stack, controlStack, imm), loop(stack, controlStack, imm),
                             if_(stack, controlStack, imm), try_(stack, controlStack, imm)} :
                       IF featureSpec.multipleResultsAndBlockParams
                       THEN r.err \notin {ErrBlockParams, ErrBlockResults}
                       ELSE IF Len(types[imm.index].params) > 0
                       THEN r = Throw(ErrBlockParams, stack, controlStack)
                       ELSE IF Len(types[imm.index].results) > 1
                       THEN r = Throw(ErrBlockResults, stack, controlStack)
                       ELSE r.err \notin {ErrBlockParams, ErrBlockResults}

\* With the feature disabled a block whose type has a parameter was rejected
\* although the parameter was on the stack.
C20_Witness ==
    /\ pass = "code" /\ ~featureSpec.multipleResultsAndBlockParams
    /\ lastOp = "block" /\ lastError = ErrBlockParams
    /\ stack = <<"i32">> /\ Len(controlStack) = 1

\* The calls of the operators that end in enterUnreachable, on st and cs.
EnterUnreachableCalls(st, cs) ==
    {unreachable(st, cs), return_(st, cs)}
        \cup {br(st, cs, d) : d \in Depths}
        \cup {br_table(st, cs, imm) : imm \in BranchTableImms}
        \cup {throw_(st, cs, i) : i \in 0..Len(exceptionTypes)}
        \cup {rethrow(st, cs, d) : d \in Depths}

\* C21: after each of br, br_table, return, unreachable, throw and rethrow
\* succeeds, the operand stack is exactly its entries below the top frame's
\* outerStackSize and the top frame's isReachable is false; the control-stack
\* depth, every other frame and the top frame's other fields are unchanged.
C21_EnterUnreachableFrame ==
    AtOperator =>
        LET size == Len(controlStack)
            floor == Back(controlStack).outerStackSize IN
        \A r \in EnterUnreachableCalls(stack, controlStack) :
            r.ok =>
                /\ Len(r.stack) = floor
                /\ r.stack = SubSeq(stack, 1, floor)
                /\ Len(r.controlStack) = size
                /\ ~r.controlStack[size].isReachable
                /\ \A i \in 1..(size - 1) : r.controlStack[i] = controlStack[i]
                /\ \A field \in {"type", "outerStackSize", "params", "results", "elseParams"} :
                       r.controlStack[size][field] = controlStack[size][field]

\* br_table was accepted in a block opened above a value of the function
\* frame: the block is unreachable, the function frame is not, and the value
\* below the block's floor is still there.
C21_Witness ==
    /\ AtOperator /\ lastOp = "br_table" /\ Len(controlStack) = 2
    /\ ~controlStack[2].isReachable /\ controlStack[1].isReachable
    /\ controlStack[2].outerStackSize = 1 /\ stack = <<"i32">>

\* C22: a frame that is unreachable becomes reachable again only by an else,
\* catch or catch_all called while it is the top frame, which keeps the
\* control-stack depth; any other operator leaves it unreachable or, as end,
\* removes it.  A frame that is not the top frame is not changed at all, so
\* opening and closing an inner frame leaves the enclosing frame's isReachable
\* as it was.
C22_UnreachableUntilReset ==
    [][\A i \in 1..Len(controlStack) :
           i <= Len(controlStack') =>
               /\ (~controlStack[i].isReachable /\ controlStack'[i].isReachable) =>
                      /\ i = Len(controlStack)
                      /\ Len(controlStack') = Len(controlStack)
                      /\ lastOp' \in {"else", "catch", "catch_all"}
                      /\ lastError' = ""
               /\ i < Len(controlStack) => controlStack'[i] = controlStack[i]]_vars

\* The function frame became unreachable, a block was opened in it and closed
\* by end: the function frame is still unreachable.
C22_Witness ==
    /\ AtOperator /\ lastOp = "end" /\ numOps = 3 /\ numOpens = 1 /\ numEnds = 1
    /\ Len(controlStack) = 1 /\ ~controlStack[1].isReachable

\* The larger of two numbers.
Max(a, b) == IF a >= b THEN a ELSE b

\* C23: a successful block T pushes exactly one control frame, of type block
\* with params = results = T.results and isReachable = true, whose
\* outerStackSize is the operand-stack height after T.params were popped, and
\* leaves T.params above that floor; in a reachable frame the operand-stack
\* height is the same before and after block.
C23_BlockPushesFrameBelowParams ==
    AtOperator =>
        \A imm \in BlockTypeImms :
            LET r == block(stack, controlStack, imm)
                T == validateBlockType(imm).type
                size == Len(controlStack)
                height == Max(Len(stack) - Len(T.params),
                              Back(controlStack).outerStackSize) IN
            r.ok =>
                /\ Len(r.controlStack) = size + 1
                /\ SubSeq(r.controlStack, 1, size) = controlStack
                /\ r.controlStack[size + 1] =
                       [type |-> "block", outerStackSize |-> height,
                        params |-> T.results, results |-> T.results,
                        isReachable |-> TRUE, elseParams |-> <<>>]
                /\ r.stack = SubSeq(stack, 1, height) \o T.params
                /\ Back(controlStack).isReachable =>
                       /\ Len(r.stack) = Len(stack)
                       /\ height = Len(stack) - Len(T.params)
                       /\ Satisfies(stack, controlStack, T.params)

\* A block with an i32 parameter and result was opened on the function's
\* argument in a reachable frame: its floor is below the parameter.
C23_Witness ==
    /\ AtOperator /\ lastOp = "block" /\ Len(controlStack) = 2
    /\ controlStack[1].isReachable /\ controlStack[2].type = "block"
    /\ controlStack[2].outerStackSize = 0 /\ controlStack[2].params = <<"i32">>
    /\ stack = <<"i32">>

\* C24: loop T records T.params as the tuple a branch to its frame is checked
\* against and T.results as the tuple its end is checked against; block, if
\* and try record T.results for both, and so does the function frame with the
\* function's results.  br, br_if and br_table are accepted exactly when the
\* operand stack satisfies the tuple recorded for branches to the target, and
\* end only when it satisfies the top frame's results, which it pushes to the
\* enclosing frame.
C24_LoopBranchesToParams ==
    AtOperator =>
        LET size == Len(controlStack) IN
        /\ \A imm \in BlockTypeImms :
               LET T == validateBlockType(imm).type
                   opened == loop(stack, controlStack, imm) IN
               /\ opened.ok =>
                      /\ Back(opened.controlStack).type = "loop"
                      /\ Back(opened.controlStack).params = T.params
                      /\ Back(opened.controlStack).results = T.results
               /\ \A r \in {block(stack, controlStack, imm), if_(stack, controlStack, imm),
                            try_(stack, controlStack, imm)} :
                      r.ok =>
                          /\ Back(r.controlStack).type # "loop"
                          /\ Back(r.controlStack).params = T.results
                          /\ Back(r.controlStack).results = T.results
        /\ controlStack[1].type = "function"
        /\ controlStack[1].results = functionType.results
        /\ \A i \in 1..size :
               controlStack[i].type # "loop" => controlStack[i].params = controlStack[i].results
        /\ \A depth \in 0..(size - 1) :
               LET target == controlStack[size - depth]
                   checked == IF target.type = "loop" THEN target.params ELSE target.results IN
               /\ br(stack, controlStack, depth).ok
                      <=> Satisfies(stack, controlStack, checked)
               /\ br_if(stack, controlStack, depth).ok
                      <=> Satisfies(stack, controlStack, checked \o <<"i32">>)
               /\ br_table(stack, controlStack,
                           [branchTableIndex |-> 1, defaultTargetDepth |-> depth]).ok
                      <=> Satisfies(stack, controlStack, checked \o <<"i32">>)
        /\ LET closed == end(stack, controlStack) IN
           closed.ok =>
               /\ Satisfies(stack, controlStack, Back(controlStack).results)
               /\ size > 1 =>
                      closed.stack = SubSeq(stack, 1, Back(controlStack).outerStackSize)
                                         \o Back(controlStack).results

\* A loop of type (i64) -> () was opened on an i64: a branch to it is accepted
\* on the parameter, which its end rejects.
C24_Witness ==
    /\ AtOperator /\ lastOp = "loop" /\ Len(controlStack) = 2
    /\ Back(controlStack).type = "loop"
    /\ Back(controlStack).params = <<"i64">> /\ Back(controlStack).results = <<>>
    /\ stack = <<"i64">>
    /\ br(stack, controlStack, 0).ok /\ ~end(stack, controlStack).ok

\* The operand stack st satisfies the results of the top frame of cs and holds
\* nothing more above the frame's outerStackSize.
ClosesFrame(st, cs) ==
    /\ Satisfies(st, cs, Back(cs).results)
    /\ Len(st) <= Back(cs).outerStackSize + Len(Back(cs).results)

\* C25: else succeeds exactly when the top frame has type ifThen, the operand
\* stack satisfies the frame's results and nothing more lies above the frame's
\* outerStackSize; it then sets the frame's type to ifElse and isReachable to
\* true, changes nothing else of the control stack and leaves the entries
\* below the floor followed by elseParams.  An else on the frame it has just
\* left as ifElse, or in a frame of any other type, throws "else only allowed
\* in if context" and changes nothing.
C25_ElseOnlyOnceInIf ==
    AtOperator =>
        LET r == else_(stack, controlStack)
            size == Len(controlStack)
            top == Back(controlStack) IN
        /\ r.ok <=> (top.type = "ifThen" /\ ClosesFrame(stack, controlStack))
        /\ r.ok =>
               /\ r.controlStack = [controlStack EXCEPT ![size].type = "ifElse",
                                                        ![size].isReachable = TRUE]
               /\ r.stack = SubSeq(stack, 1, top.outerStackSize) \o top.elseParams
               /\ else_(r.stack, r.controlStack) = Throw(ErrElse, r.stack, r.controlStack)
        /\ top.type # "ifThen" => r = Throw(ErrElse, stack, controlStack)

\* else was accepted in an if of type (i32) -> (i32): the frame is ifElse and
\* the operand stack holds the parameter again.
C25_Witness ==
    /\ AtOperator /\ lastOp = "else" /\ Len(controlStack) = 2
    /\ Back(controlStack).type = "ifElse" /\ Back(controlStack).isReachable
    /\ Back(controlStack).elseParams = <<"i32">>
    /\ Back(controlStack).outerStackSize = 0 /\ stack = <<"i32">>

\* C26: the end of a frame that is not the function frame succeeds only if the
\* operand stack satisfies the frame's results and nothing more lies above
\* the frame's outerStackSize; a stack that satisfies the results and holds
\* more throws "stack was not empty at end of control structure" once the
\* results are popped.  A successful end removes the top frame only and
\* leaves the entries below its outerStackSize followed by its results.
C26_EndClosesFrame ==
    (AtOperator /\ Len(controlStack) > 1) =>
        LET r == end(stack, controlStack)
            size == Len(controlStack)
            top == Back(controlStack)
            mayEnd == /\ top.type # "try_"
                      /\ top.type = "ifThen" => top.results = top.elseParams IN
        /\ r.ok <=> (mayEnd /\ ClosesFrame(stack, controlStack))
        /\ r.ok =>
               /\ r.controlStack = SubSeq(controlStack, 1, size - 1)
               /\ r.stack = SubSeq(stack, 1, top.outerStackSize) \o top.results
        /\ (/\ mayEnd /\ Satisfies(stack, controlStack, top.results)
            /\ Len(stack) > top.outerStackSize + Len(top.results)) =>
               r = Throw(ErrStackNotEmpty,
                         SubSeq(stack, 1, Len(stack) - Len(top.results)), controlStack)

\* A block with an i32 result opened above an i32 of the function frame was
\* closed: the value below its floor is followed by its result.
C26_Witness ==
    /\ AtOperator /\ lastOp = "end" /\ numOps = 4 /\ numOpens = 1
    /\ Len(controlStack) = 1 /\ stack = <<"i32", "i32">>

\* C27: end throws "end may not occur in try context", changing nothing,
\* whenever the top frame's type is try.  A frame that try opens has type try,
\* only a successful catch or catch_all on it as the top frame changes that
\* type, to catch, and no frame of type try is ever removed: every try of an
\* accepted body is followed by a catch or catch_all on its frame before the
\* end that closes it.
C27_NoEndInTry ==
    /\ [](AtOperator =>
            /\ Back(controlStack).type = "try_" =>
                   end(stack, controlStack) = Throw(ErrEndInTry, stack, controlStack)
            /\ \A imm \in BlockTypeImms :
                   LET opened == try_(stack, controlStack, imm) IN
                   opened.ok =>
                       /\ Len(opened.controlStack) = Len(controlStack) + 1
                       /\ Back(opened.controlStack).type = "try_")
    /\ [][/\ (controlStack # <<>> /\ Len(controlStack') < Len(controlStack)) =>
                 Back(controlStack).type # "try_"
          /\ \A i \in 1..Len(controlStack) :
                 (/\ i <= Len(controlStack')
                  /\ controlStack[i].type = "try_" /\ controlStack'[i].type # "try_") =>
                     /\ i = Len(controlStack)
                     /\ controlStack'[i].type = "catch_"
                     /\ lastOp' \in {"catch", "catch_all"} /\ lastError' = ""]_vars

\* end was called in a try frame and threw.
C27_Witness ==
    /\ lastOp = "end" /\ lastError = ErrEndInTry /\ failed
    /\ Len(controlStack) = 2 /\ Back(controlStack).type = "try_"

\* C28: catch and catch_all succeed exactly when the top frame's type is try
\* or catch, the operand stack satisfies the frame's results and nothing more
\* lies above the frame's outerStackSize (and, for catch, the exception type
\* index is in range).  They leave the frame with type catch and isReachable
\* true, the rest of the control stack as it was, and the entries below the
\* floor followed by the exception type's params (catch) or by nothing
\* (catch_all).  In a function, block, loop, ifThen or ifElse frame they fail.
C28_CatchOnlyInTryOrCatch ==
    AtOperator =>
        LET size == Len(controlStack)
            top == Back(controlStack)
            floor == SubSeq(stack, 1, top.outerStackSize)
            caught == [controlStack EXCEPT ![size].type = "catch_",
                                           ![size].isReachable = TRUE]
            mayCatch == top.type \in {"try_", "catch_"} /\ ClosesFrame(stack, controlStack)
            all == catch_all(stack, controlStack) IN
        /\ all.ok <=> mayCatch
        /\ all.ok => all = Return(floor, caught)
        /\ ~all.ok => all.controlStack = controlStack
        /\ \A i \in 0..Len(exceptionTypes) :
               LET r == catch_(stack, controlStack, i) IN
               /\ r.ok <=> (i < Len(exceptionTypes) /\ mayCatch)
               /\ r.ok => r = Return(floor \o exceptionTypes[i + 1], caught)
               /\ ~r.ok => r.controlStack = controlStack
               /\ i >= Len(exceptionTypes) => r = Throw(ErrInvalidIndex, stack, controlStack)
        /\ (top.type \in {"function", "block", "loop", "ifThen", "ifElse"}
              /\ ClosesFrame(stack, controlStack)) =>
               all = Throw(ErrCatch, floor, controlStack)

\* catch was accepted on a frame that is already of type catch: the operand
\* stack holds the exception type's parameter above the floor.
C28_Witness ==
    /\ AtOperator /\ lastOp = "catch" /\ numOps = 3 /\ numOpens = 1
    /\ Len(controlStack) = 2 /\ Back(controlStack).type = "catch_"
    /\ Back(controlStack).isReachable /\ Back(controlStack).outerStackSize = 0
    /\ stack = <<"i32">>

\* C29: rethrow catchDepth succeeds exactly when catchDepth is less than the
\* control-stack size and controlStack[size - catchDepth - 1] has type catch,
\* whatever the operand stack holds; a depth out of range throws an invalid
\* index and a target of any other type, try included, throws "rethrow must
\* target a catch", both changing nothing.  On success no operand is checked:
\* the operand stack is cut to the top frame's outerStackSize and the top
\* frame is unreachable.
C29_RethrowTargetsCatch ==
    AtOperator =>
        LET size == Len(controlStack) IN
        \A catchDepth \in Depths :
            LET r == rethrow(stack, controlStack, catchDepth) IN
            /\ r.ok <=> (/\ catchDepth < size
                         /\ controlStack[size - catchDepth].type = "catch_")
            /\ r.ok =>
                   r = Return(SubSeq(stack, 1, Back(controlStack).outerStackSize),
                              [controlStack EXCEPT ![size].isReachable = FALSE])
            /\ catchDepth >= size => r = Throw(ErrInvalidIndex, stack, controlStack)
            /\ (catchDepth < size /\ controlStack[size - catchDepth].type # "catch_") =>
                   r = Throw(ErrRethrow, stack, controlStack)

\* rethrow 1 was accepted in a block inside a catch frame: the block is
\* unreachable, the catch frame is not.
C29_Witness ==
    /\ AtOperator /\ lastOp = "rethrow" /\ Len(controlStack) = 3
    /\ controlStack[2].type = "catch_" /\ controlStack[2].isReachable
    /\ controlStack[3].type = "block" /\ ~controlStack[3].isReachable

\* C30: return is accepted exactly when the operand stack above the top
\* frame's outerStackSize satisfies the function's result tuple, whatever the
\* results of the frames it is nested in; it then cuts the operand stack to
\* the top frame's outerStackSize and makes the top frame, and no other,
\* unreachable.  A rejected return leaves the control stack as it was; in a
\* reachable frame whose operand stack is at the floor it throws "stack was
\* empty" whatever lies below the floor.
C30_ReturnChecksFunctionResults ==
    AtOperator =>
        LET r == return_(stack, controlStack)
            size == Len(controlStack) IN
        /\ r.ok <=> Satisfies(stack, controlStack, functionType.results)
        /\ r.ok =>
               r = Return(SubSeq(stack, 1, Back(controlStack).outerStackSize),
                          [controlStack EXCEPT ![size].isReachable = FALSE])
        /\ ~r.ok =>
               /\ r.controlStack = controlStack
               /\ r.err \in {ErrStackEmpty, ErrTypeMismatch}
        /\ (/\ Back(controlStack).isReachable /\ functionType.results # <<>>
            /\ Len(stack) = Back(controlStack).outerStackSize) =>
               r = Throw(ErrStackEmpty, stack, controlStack)

\* return was accepted on an i32 in a block without results, in a function
\* whose result is i32.
C30_Witness ==
    /\ AtOperator /\ lastOp = "return" /\ numOps = 3 /\ Len(controlStack) = 2
    /\ functionType.results = <<"i32">>
    /\ controlStack[2].type = "block" /\ controlStack[2].results = <<>>
    /\ ~controlStack[2].isReachable /\ controlStack[1].isReachable
    /\ stack = <<>>

\* C31 as stated: after a successful br_if the operand stack is the stack
\* before it without its top entry, the i32 condition, and the control stack
\* is unchanged.
C31_BrIfRemovesOnlyCondition ==
    AtOperator =>
        \A depth \in Depths :
            LET r == br_if(stack, controlStack, depth) IN
            r.ok =>
                /\ Len(r.stack) = Len(stack) - 1
                /\ r.stack = SubSeq(stack, 1, Len(stack) - 1)
                /\ r.controlStack = controlStack

\* C31 amended: a successful br_if leaves the control stack unchanged and the
\* operand stack with the target's branch parameters on top of what the pops
\* of the condition and of those parameters left.  In a reachable frame that
\* is the stack before it without the condition, each operand that satisfied
\* a parameter now carrying the parameter's type; in an unreachable frame the
\* pops stop at the floor and the parameters are pushed all the same, so the
\* stack may grow.
C31_BrIfRepushesBranchParams ==
    AtOperator =>
        \A depth \in Depths :
            LET r == br_if(stack, controlStack, depth)
                top == Back(controlStack) IN
            r.ok =>
                LET params == BranchParams(controlStack[Len(controlStack) - depth])
                    height == Max(Len(stack) - 1 - Len(params), top.outerStackSize) IN
                /\ r.controlStack = controlStack
                /\ r.stack = SubSeq(stack, 1, height) \o params
                /\ top.isReachable =>
                       /\ Len(r.stack) = Len(stack) - 1
                       /\ stack[Len(stack)] = "i32"
                       /\ \A i \in 1..Len(r.stack) : isSubtype(stack[i], r.stack[i])
                /\ ~top.isReachable => Len(r.stack) >= Len(stack) - 1

\* br_if was accepted at the floor of the unreachable function frame of a
\* function with an i32 result: the operand stack now holds that result.
C31_Witness ==
    /\ AtOperator /\ lastOp = "br_if" /\ numOps = 2 /\ Len(controlStack) = 1
    /\ ~controlStack[1].isReachable /\ stack = <<"i32">>
    /\ functionType.params = <<"i32">>

\* The tuples peeked and popped: every tuple of up to two of these types.
PeekTuples == SeqsUpTo({"i32", "i64", "anyref"}, 2)

\* C32: peekAndValidateTypeTuple checks the operand at depth N - 1 against the
\* tuple's first entry and the operand at depth 0 against its last, an
\* operand at or below the floor being accepted only in an unreachable frame,
\* and it accepts exactly the stacks on which popAndValidateTypeTuple of the
\* same tuple succeeds, in reachable and unreachable frames alike; the pop
\* then leaves the stack without the entries it matched above the floor.
C32_PeekTupleAgreesWithPop ==
    AtOperator =>
        \A expectedTypes \in PeekTuples :
            LET peeked == peekAndValidateTypeTuple(stack, controlStack, expectedTypes)
                popped == popAndValidateTypeTuple(stack, controlStack, expectedTypes)
                N == Len(expectedTypes) IN
            /\ peeked.ok <=> popped.ok
            /\ peeked.ok <=> Satisfies(stack, controlStack, expectedTypes)
            /\ peeked.ok <=>
                   \A i \in 1..N :
                       peekAndValidateOperand(stack, controlStack, N - i, expectedTypes[i]).ok
            /\ popped.ok =>
                   popped.stack =
                       SubSeq(stack, 1, Max(Len(stack) - N, Back(controlStack).outerStackSize))

\* An i32 lies below an i64 in a reachable frame: the peek of (i32, i64)
\* succeeds and the peek of (i64, i32) throws.
C32_Witness ==
    /\ AtOperator /\ Back(controlStack).isReachable
    /\ Back(controlStack).outerStackSize = 0 /\ stack = <<"i32", "i64">>
    /\ peekAndValidateTypeTuple(stack, controlStack, <<"i32", "i64">>).ok
    /\ ~peekAndValidateTypeTuple(stack, controlStack, <<"i64", "i32">>).ok

\* The calls of non-control, non-parametric operators the claims evaluate:
\* those the stream is fed, nop, and v128.load with a valid and with an
\* invalid alignment.
GatedCalls ==
    NonParametricCalls
        \cup { [name |-> "nop", imm |-> NoImm] }
        \cup { [name |-> "v128_load", imm |-> LoadOrStoreImm(a, 4)] : a \in {4, 5} }

\* C33: in a reachable frame a non-control, non-parametric operator of
\* signature (P) -> (R) succeeds exactly when its feature is enabled, its
\* immediate is valid and the |P| topmost operands lie above the frame's
\* floor and are subtypes of P in order, the last entry of P topmost; it then
\* leaves the stack with those entries replaced by R and the control stack
\* unchanged.  With feature and immediate valid and |P| operands above the
\* floor, an operand of another type throws "type mismatch".
C33_NonParametricOperatorSignature ==
    (AtOperator /\ Back(controlStack).isReachable) =>
        \A c \in GatedCalls :
            LET r == VALIDATE_OP(stack, controlStack, c.name, c.imm)
                sig == NonParametricOpSigs[c.name]
                P == sig.params
                below == Len(stack) - Len(P)
                gated == /\ featureSpec[sig.requiredFeature]
                         /\ c.imm.kind = "LoadOrStoreImm" =>
                                c.imm.alignmentLog2 <= c.imm.naturalAlignmentLog2
                present == below >= Back(controlStack).outerStackSize
                matching == \A i \in 1..Len(P) : isSubtype(stack[below + i], P[i]) IN
            /\ r.ok <=> (gated /\ present /\ matching)
            /\ r.ok => r = Return(SubSeq(stack, 1, below) \o sig.results, controlStack)
            /\ (gated /\ present /\ ~matching) => r.err = ErrTypeMismatch
            /\ ~r.ok => r.controlStack = controlStack

\* i32.add was accepted on two i32 in the reachable function frame and left
\* one i32.
C33_Witness ==
    /\ AtOperator /\ lastOp = "i32_add" /\ numOps = 3 /\ Len(controlStack) = 1
    /\ Back(controlStack).isReachable /\ stack = <<"i32">>

\* The type of the operand a pop finds at depth operandDepth of st in the top
\* frame of cs: the entry there, or the unknown type none at or below the
\* frame's floor.
OperandAt(st, cs, operandDepth) ==
    IF Len(st) - operandDepth > Back(cs).outerStackSize
    THEN st[Len(st) - operandDepth] ELSE "none"

\* C34: the untyped select pops an i32 condition, the false value and the
\* true value.  With the three operands available (above the floor, or the
\* frame unreachable) and the condition an i32, it throws if a value is known
\* and not numeric, or if both are known and differ; otherwise it pushes, in
\* place of the three, one operand: the type of the known values, the type of
\* the known one when exactly one is unknown, the unknown type when both are.
C34_UntypedSelectResult ==
    AtOperator =>
        LET r == select(stack, controlStack, "any")
            top == Back(controlStack)
            condition == OperandAt(stack, controlStack, 0)
            falseType == OperandAt(stack, controlStack, 1)
            trueType == OperandAt(stack, controlStack, 2)
            available == ~top.isReachable \/ Len(stack) - 2 > top.outerStackSize
            known == {falseType, trueType} \ {"none"}
            numeric == \A t \in known : isNumericType(t)
            below == SubSeq(stack, 1, Max(Len(stack) - 3, top.outerStackSize)) IN
        /\ r.ok <=> (/\ available /\ isSubtype(condition, "i32")
                     /\ numeric /\ Cardinality(known) <= 1)
        /\ r.ok =>
               /\ r.controlStack = controlStack
               /\ Len(r.stack) = Len(below) + 1
               /\ SubSeq(r.stack, 1, Len(below)) = below
               /\ \A t \in known : r.stack[Len(r.stack)] = t
               /\ known = {} => r.stack[Len(r.stack)] = "none"
        /\ (available /\ isSubtype(condition, "i32")) =>
               /\ ~numeric => r = Throw(ErrSelectNumeric, below, controlStack)
               /\ (numeric /\ Cardinality(known) = 2) =>
                      r = Throw(ErrSelectSame, below, controlStack)

\* In the unreachable function frame the untyped select was accepted on an
\* i32 condition and an i64 false value, the true value being unknown: it
\* left an i64.
C34_Witness ==
    /\ AtOperator /\ lastOp = "select" /\ numOps = 4 /\ Len(controlStack) = 1
    /\ ~Back(controlStack).isReachable /\ stack = <<"i64">>

\* The operators on the local of index i, on the current state.
LocalOperators(i) ==
    LET top == Back(controlStack)
        get == local_get(stack, controlStack, i)
        set == local_set(stack, controlStack, i)
        tee == local_tee(stack, controlStack, i)
        atFloor == Len(stack) = top.outerStackSize
        accepted == IF atFloor THEN ~top.isReachable
                    ELSE isSubtype(stack[Len(stack)], locals[i + 1]) IN
    IF i >= Len(functionType.params) + Len(nonParameterLocalTypes)
    THEN /\ get = Throw(ErrInvalidIndex, stack, controlStack)
         /\ set = Throw(ErrInvalidIndex, stack, controlStack)
         /\ tee = Throw(ErrInvalidIndex, stack, controlStack)
    ELSE /\ get = Return(stack \o <<locals[i + 1]>>, controlStack)
         /\ set.ok <=> accepted
         /\ tee.ok <=> accepted
         /\ ~accepted => /\ set.err = IF atFloor THEN ErrStackEmpty ELSE ErrTypeMismatch
                         /\ tee.err = set.err
         /\ set.ok => set = Return(IF atFloor THEN stack
                                   ELSE SubSeq(stack, 1, Len(stack) - 1), controlStack)
         /\ (tee.ok /\ top.isReachable) => tee = Return(stack, controlStack)

\* C35: local.get i pushes locals[i]; local.set i pops one operand, which
\* must be a subtype of locals[i]; local.tee i requires the top operand to be
\* a subtype of locals[i] and in a reachable frame leaves the operand stack as
\* it was.  Each throws 'invalid index' when i is at least the number of
\* parameters plus the number of non-parameter locals, and no step changes
\* locals.
C35_LocalsOperators ==
    /\ [](AtOperator => \A i \in 0..Len(locals) : LocalOperators(i))
    /\ [][locals' = locals]_vars

\* local.tee of the i64 local was accepted on an i64 operand of the reachable
\* function frame, which is still there.
C35_Witness ==
    /\ AtOperator /\ lastOp = "local.tee" /\ numOps = 2 /\ Len(controlStack) = 1
    /\ Back(controlStack).isReachable /\ stack = <<"i64">>

\* The frame the constructor pushes for the function being validated.
FunctionFrame ==
    [type |-> "function", outerStackSize |-> 0, params |-> functionType.results,
     results |-> functionType.results, isReachable |-> TRUE, elseParams |-> <<>>]

\* C36: on construction the control stack holds exactly the function frame
\* (type function, outerStackSize 0, params = results = the function's
\* results, reachable, no elseParams) and the operand stack is empty, whatever
\* the function's parameters; in every later state with a non-empty control
\* stack the bottom frame is that frame, its isReachable flag apart, and no
\* frame above it has the type function.
C36_FunctionFrame ==
    pass = "code" =>
        /\ numOps = 0 => (controlStack = <<FunctionFrame>> /\ stack = <<>>)
        /\ controlStack # <<>> =>
               /\ [controlStack[1] EXCEPT !.isReachable = TRUE] = FunctionFrame
               /\ \A i \in 2..Len(controlStack) : controlStack[i].type # "function"

\* A block was opened in the function frame of the function (i32)->(i32)
\* after that frame had become unreachable.
C36_Witness ==
    /\ pass = "code" /\ lastOp = "block" /\ Len(controlStack) = 2 /\ ~failed
    /\ ~controlStack[1].isReachable /\ functionType.params = <<"i32">>

\* C37: in every state of the stream the outerStackSize of the control frames
\* does not decrease from the bottom of the control stack to the top and the
\* top frame's outerStackSize is at most the height of the operand stack; an
\* end that closes a frame leaves the operand stack at or above the floor of
\* the frame that encloses it.
C37_FloorsOrdered ==
    (pass = "code" /\ controlStack # <<>>) =>
        /\ \A i \in 1..(Len(controlStack) - 1) :
               controlStack[i].outerStackSize <= controlStack[i + 1].outerStackSize
        /\ Back(controlStack).outerStackSize <= Len(stack)
        /\ LET r == end(stack, controlStack) IN
           (r.ok /\ r.controlStack # <<>>) =>
               /\ r.controlStack = SubSeq(controlStack, 1, Len(controlStack) - 1)
               /\ Len(r.stack) >= Back(r.controlStack).outerStackSize

\* end closed an inner frame whose floor lay above the function frame's: one
\* frame is still open above the function frame, with an operand below its
\* floor.
C37_Witness ==
    /\ AtOperator /\ lastOp = "end" /\ Len(controlStack) = 2
    /\ controlStack[2].outerStackSize = 1 /\ Len(stack) >= 1

\* What one step may do to the control stack.
TopFrameOnly ==
    LET n == Len(controlStack)
        m == Len(controlStack') IN
    /\ m \in {n - 1, n, n + 1}
    /\ m = n + 1 => lastOp' \in {"block", "loop", "if", "try"}
    /\ m = n - 1 => lastOp' = "end"
    /\ \A i \in 1..(n - 1) : controlStack'[i] = controlStack[i]
    /\ m >= n =>
           LET old == controlStack[n]
               new == controlStack'[n] IN
           /\ new.outerStackSize = old.outerStackSize
           /\ new.params = old.params
           /\ new.results = old.results
           /\ new.elseParams = old.elseParams
           /\ new.type # old.type =>
                  \/ /\ old.type = "ifThen" /\ new.type = "ifElse"
                     /\ lastOp' = "else"
                  \/ /\ old.type \in {"try_", "catch_"} /\ new.type = "catch_"
                     /\ lastOp' \in {"catch", "catch_all"}

\* C38: an operator modifies only the top control frame.  The frames below
\* the top stay as they are; outerStackSize, params, results and elseParams
\* of a frame never change; the depth of the control stack changes by at most
\* one, growing only on block, loop, if and try and shrinking only on end; a
\* frame's type changes only from ifThen to ifElse on else and from try or
\* catch to catch on catch and catch_all.
C38_OnlyTopFrameModified ==
    [][(pass = "code" /\ controlStack # <<>>) => TopFrameOnly]_vars

\* else was accepted in an if with the block type (i32)->(i32): the frame is
\* now of type ifElse and still carries its elseParams.
C38_Witness ==
    /\ AtOperator /\ lastOp = "else" /\ Len(controlStack) = 2
    /\ Back(controlStack).type = "ifElse" /\ Back(controlStack).elseParams = <<"i32">>

\* Every entry of st that is the unknown type none lies in the region of a
\* frame of cs that is unreachable: above that frame's outerStackSize and not
\* above the outerStackSize of the next frame.
NoneOnlyInUnreachable(st, cs) ==
    \A k \in 1..Len(st) :
        st[k] = "none" =>
            \E i \in 1..Len(cs) :
                /\ cs[i].outerStackSize < k
                /\ i < Len(cs) => k <= cs[i + 1].outerStackSize
                /\ ~cs[i].isReachable

\* What else, end, catch and catch_all may leave on the current state.
FrameSwitches ==
    {else_(stack, controlStack), end(stack, controlStack), catch_all(stack, controlStack)}
        \cup {catch_(stack, controlStack, i) : i \in 0..(Len(exceptionTypes) - 1)}

\* C39: with only concrete value types declared in the module, the unknown
\* type none (ValueType::none in the code) is on the operand stack only in
\* the region of an unreachable frame, never in the region of a reachable
\* one, and an accepted else, catch, catch_all or end leaves no none at or
\* above the floor of the frame it switches or closes.
C39_UnknownOnlyInUnreachableRegion ==
    pass = "code" =>
        /\ NoneOnlyInUnreachable(stack, controlStack)
        /\ AtOperator =>
               \A r \in FrameSwitches :
                   r.ok =>
                       /\ NoneOnlyInUnreachable(r.stack, r.controlStack)
                       /\ \A k \in (Back(controlStack).outerStackSize + 1)..Len(r.stack) :
                              r.stack[k] # "none"

\* An unknown operand lies in the region of the unreachable function frame
\* while the frame opened above it is reachable.
C39_Witness ==
    /\ AtOperator /\ Len(controlStack) = 2 /\ Len(stack) >= 1 /\ stack[1] = "none"
    /\ ~controlStack[1].isReachable /\ controlStack[2].isReachable
    /\ controlStack[2].outerStackSize >= 1

\* The exception a call must end in with the operand stack and the control
\* stack as they were before it.
Untouched(r, err) == r = Throw(err, stack, controlStack)

\* C40: a non-control, non-parametric operator whose feature is disabled
\* throws on the feature, whatever its immediate, and one whose feature is
\* enabled and whose immediate is invalid throws on the immediate; try, catch,
\* catch_all, throw and rethrow throw on the disabled exceptionHandling
\* feature, and catch and throw on an exception type index out of range.  In
\* each case the operand stack and the control stack are as before the call.
C40_GateFailuresLeaveStacks ==
    AtOperator =>
        /\ \A c \in GatedCalls :
               LET r == VALIDATE_OP(stack, controlStack, c.name, c.imm)
                   enabled == featureSpec[NonParametricOpSigs[c.name].requiredFeature]
                   misaligned == /\ c.imm.kind = "LoadOrStoreImm"
                                 /\ c.imm.alignmentLog2 > c.imm.naturalAlignmentLog2 IN
               /\ ~enabled => Untouched(r, ErrFeature)
               /\ (enabled /\ misaligned) => Untouched(r, ErrAlignment)
        /\ ~featureSpec.exceptionHandling =>
               /\ \A imm \in BlockTypeImms :
                      LET r == try_(stack, controlStack, imm) IN
                      /\ ~r.ok /\ r.stack = stack /\ r.controlStack = controlStack
                      /\ validateBlockType(imm).ok => r.err = ErrFeature
               /\ \A i \in 0..Len(exceptionTypes) :
                      /\ Untouched(catch_(stack, controlStack, i), ErrFeature)
                      /\ Untouched(throw_(stack, controlStack, i), ErrFeature)
               /\ Untouched(catch_all(stack, controlStack), ErrFeature)
               /\ \A d \in Depths : Untouched(rethrow(stack, controlStack, d), ErrFeature)
        /\ featureSpec.exceptionHandling =>
               /\ Untouched(catch_(stack, controlStack, Len(exceptionTypes)), ErrInvalidIndex)
               /\ Untouched(throw_(stack, controlStack, Len(exceptionTypes)), ErrInvalidIndex)

\* With exceptionHandling disabled, throw was called on an i32 operand and
\* threw on the feature: the operand is still on the stack.
C40_Witness ==
    /\ ~featureSpec.exceptionHandling /\ lastOp = "throw" /\ lastError = ErrFeature
    /\ failed /\ numOps = 2 /\ stack = <<"i32">> /\ Len(controlStack) = 1

====
